---- MODULE Spec2Model ----
(***************************************************************************)
(* Crawl scheduler and recovery subsystem of doc-to-md.                    *)
(*                                                                         *)
(* A URL is a sequence of tokens: the separator characters ":" "/" "?"     *)
(* "#" ";" "." and words (maximal runs of other characters).  Prefix       *)
(* tests, character counts, parsing and substring search are computed on   *)
(* that sequence, as the Python code computes them on the string.          *)
(***************************************************************************)
EXTENDS Integers, Sequences, FiniteSets, TLC

\* ------------------------------------------------------------------------
\* Bounds of the model
\* ------------------------------------------------------------------------

\* retry.max_retries, retry.skip_after_failures and recovery.save_interval of
\* the configuration under which the crawl is checked.  With the threshold
\* below max_retries the skip test stops a retry inside one fetch call.
MaxRetries == 2
SkipAfterFailures == 1
SaveInterval == 2

\* Number of entries the queue is given in the checks of link admission.
MaxQueued == 4

\* Number of faults (failed requests, failed conversions, failed checkpoint
\* writes, interruptions, kills) the environment injects in one behaviour.
MaxFaults == 2

\* How many fetch_page calls the crawler takes on its own.
MaxFetches == 3

\* How many periodic save_state calls one process makes.
MaxSaves == 4

\* How many tokens the path part of a URL given to _normalize_url may hold.
MaxPathLen == 4

\* ------------------------------------------------------------------------
\* Strings as token sequences
\* ------------------------------------------------------------------------

Separators == {":", "/", "?", "#", ";", "."}

IsWord(t) == t \notin Separators

\* str.lower() on one token.
LowerTok(t) ==
    CASE t = "X" -> "x"
      [] t = "HTTPS" -> "https"
      [] t = "Docs" -> "docs"
      [] OTHER -> t

Lower(s) == [i \in 1..Len(s) |-> LowerTok(s[i])]

\* str.find: the first index of token t in s at or after index from, 0 if none.
FindFrom(s, t, from) ==
    LET hits == {i \in from..Len(s) : s[i] = t}
    IN IF hits = {} THEN 0 ELSE CHOOSE i \in hits : \A j \in hits : i <= j

Find(s, t) == FindFrom(s, t, 1)

\* str.rfind: the last index of token t in s, 0 if none.
RFind(s, t) ==
    LET hits == {i \in 1..Len(s) : s[i] = t}
    IN IF hits = {} THEN 0 ELSE CHOOSE i \in hits : \A j \in hits : i >= j

\* str.count
Count(s, t) == Cardinality({i \in 1..Len(s) : s[i] = t})

\* str.startswith
StartsWith(s, p) == Len(p) <= Len(s) /\ SubSeq(s, 1, Len(p)) = p

\* p occurs in s as a contiguous run
Contains(s, p) ==
    \E i \in 0..(Len(s) - Len(p)) : SubSeq(s, i + 1, i + Len(p)) = p

Drop(s, n) == SubSeq(s, n + 1, Len(s))

Take(s, n) == SubSeq(s, 1, n)

\* str.rstrip('/')
RECURSIVE RStripSlash(_)
RStripSlash(s) ==
    IF Len(s) > 0 /\ s[Len(s)] = "/" THEN RStripSlash(Take(s, Len(s) - 1)) ELSE s

\* ------------------------------------------------------------------------
\* urllib.parse.urlparse / urlunparse, as _normalize_url uses them
\* ------------------------------------------------------------------------

\* Schemes of urllib.parse.uses_netloc that occur in the model.
UsesNetloc == {<<"http">>, <<"https">>}

\* The scheme and the rest: the tokens before the first ":" when they are
\* scheme characters starting with a word; urlsplit lowercases the scheme.
SplitScheme(url) ==
    LET i == Find(url, ":")
    IN IF i > 1 /\ IsWord(url[1]) /\ \A j \in 1..(i - 1) : IsWord(url[j]) \/ url[j] = "."
       THEN [scheme |-> Lower(Take(url, i - 1)), rest |-> Drop(url, i)]
       ELSE [scheme |-> <<>>, rest |-> url]

\* The network location: after a leading "//", up to the first "/", "?" or "#".
SplitNetloc(rest) ==
    IF Len(rest) >= 2 /\ rest[1] = "/" /\ rest[2] = "/"
    THEN LET body == Drop(rest, 2)
             ends == {i \in 1..Len(body) : body[i] \in {"/", "?", "#"}}
             e == IF ends = {} THEN Len(body) + 1
                  ELSE CHOOSE i \in ends : \A j \in ends : i <= j
         IN [netloc |-> Take(body, e - 1), rest |-> Drop(body, e - 1)]
    ELSE [netloc |-> <<>>, rest |-> rest]

\* rest split at its first token t: the part before it, and the part after.
SplitAt(rest, t) ==
    LET i == Find(rest, t)
    IN IF i = 0 THEN [head |-> rest, tail |-> <<>>]
       ELSE [head |-> Take(rest, i - 1), tail |-> Drop(rest, i)]

\* urllib.parse._splitparams: the parameters of the last path segment.
SplitParams(path) ==
    LET slash == RFind(path, "/")
        i == IF slash > 0 THEN FindFrom(path, ";", slash) ELSE Find(path, ";")
    IN IF i = 0 THEN [path |-> path, params |-> <<>>]
       ELSE [path |-> Take(path, i - 1), params |-> Drop(path, i)]

urlparse(url) ==
    LET s == SplitScheme(url)
        n == SplitNetloc(s.rest)
        f == SplitAt(n.rest, "#")
        q == SplitAt(f.head, "?")
        p == SplitParams(q.head)
    IN [scheme |-> s.scheme, netloc |-> n.netloc, path |-> p.path,
        params |-> p.params, query |-> q.tail, fragment |-> f.tail]

\* urlunparse((scheme, netloc, path, '', '', ''))
urlunparse(scheme, netloc, path) ==
    LET withNetloc ==
            IF netloc # <<>>
               \/ (scheme # <<>> /\ scheme \in UsesNetloc /\ ~StartsWith(path, <<"/", "/">>))
            THEN <<"/", "/">> \o netloc
                 \o (IF path # <<>> /\ path[1] # "/" THEN <<"/">> ELSE <<>>) \o path
            ELSE path
    IN IF scheme # <<>> THEN scheme \o <<":">> \o withNetloc ELSE withNetloc

\* The path of the normalized URL: "/" when it is exactly the root, and the
\* path without its trailing slashes otherwise.
NormalizePath(path) == IF path # <<"/">> THEN RStripSlash(path) ELSE <<"/">>

\* WebCrawler._normalize_url, as it computes its result.
normalize_url_of(url) ==
    LET parsed == urlparse(url)
    IN urlunparse(Lower(parsed.scheme), Lower(parsed.netloc), NormalizePath(parsed.path))

\* The URLs of the site and of its configuration.
StartUrl == <<"https", ":", "/", "/", "x", ".", "test", "/", "docs", "/">>
DocsNoSlash == <<"https", ":", "/", "/", "x", ".", "test", "/", "docs">>
IntroUrl == <<"https", ":", "/", "/", "x", ".", "test", "/", "docs", "/", "intro">>
IntroQuery == <<"https", ":", "/", "/", "x", ".", "test", "/", "docs", "/", "intro", "?", "v">>
RefAnchor == <<"https", ":", "/", "/", "x", ".", "test", "/", "docs", "/", "ref", "#", "a">>
EvilUrl == <<"https", ":", "/", "/", "x", ".", "test", ".", "evil", "/", "p">>
GuideUrl == <<"https", ":", "/", "/", "x", ".", "test", "/", "guide", "/">>
GuideA == <<"https", ":", "/", "/", "x", ".", "test", "/", "guide", "/", "a">>
GuideB == <<"https", ":", "/", "/", "x", ".", "test", "/", "guide", "/", "b">>
HttpUrl == <<"http", ":", "/", "/", "x", ".", "test", "/", "docs", "/", "api">>
AllowedDomain == <<"https", ":", "/", "/", "x", ".", "test">>

SiteUrls ==
    {StartUrl, DocsNoSlash, IntroUrl, IntroQuery, RefAnchor, EvilUrl, HttpUrl, AllowedDomain,
     GuideUrl, GuideA, GuideB}

\* The results of _normalize_url for the URLs of the site, computed once.
NormalForms == [u \in SiteUrls |-> normalize_url_of(u)]

\* WebCrawler._normalize_url
normalize_url(url) == IF url \in SiteUrls THEN NormalForms[url] ELSE normalize_url_of(url)

\* The host of a URL: its network location, lowercased.
HostOf(url) == Lower(urlparse(url).netloc)

\* ------------------------------------------------------------------------
\* Dictionaries (Python dict): functions with an explicit key set
\* ------------------------------------------------------------------------

EmptyDict == [k \in {} |-> 0]

\* d[k] = v
DictPut(d, k, v) == [x \in (DOMAIN d) \cup {k} |-> IF x = k THEN v ELSE d[x]]

\* d.get(k, default)
DictGet(d, k, default) == IF k \in DOMAIN d THEN d[k] ELSE default

\* ------------------------------------------------------------------------
\* Admission of a discovered link (WebCrawler._is_valid_url)
\* ------------------------------------------------------------------------

\* An exclusion pattern is a regular expression that is either invalid
\* (re.search raises re.error) or matches exactly the strings that contain
\* the run sub (".*#.*", ".*/search\.html" are of that shape under re.search).
ContainsPattern(sub) == [kind |-> "contains", sub |-> sub]

InvalidPattern == [kind |-> "invalid", sub |-> <<>>]

\* A search that takes a pattern it cannot compile for a match.
re_search_strict(pattern, url) ==
    IF pattern.kind = "invalid" THEN "match"
    ELSE IF Contains(url, pattern.sub) THEN "match" ELSE "nomatch"

\* re.search(pattern, url): "match", "nomatch", or "error" for re.error.
re_search(pattern, url) ==
    IF pattern.kind = "invalid" THEN "error"
    ELSE IF Contains(url, pattern.sub) THEN "match" ELSE "nomatch"

\* The loop over exclude_patterns: the first matching pattern rejects the URL,
\* a pattern that raises re.error is logged and the loop continues.
RECURSIVE ExcludeLoop(_, _)
ExcludeLoop(patterns, url) ==
    IF patterns = <<>> THEN [ok |-> TRUE, reason |-> "valid"]
    ELSE IF re_search(Head(patterns), url) = "match"
         THEN [ok |-> FALSE, reason |-> "excluded"]
         ELSE ExcludeLoop(Tail(patterns), url)

\* The allowed-domain test: a prefix test of the raw URL against the
\* configured allowed_domain string, skipped when that string is empty.
DomainAllowed(url, allowed_domain) ==
    allowed_domain = <<>> \/ StartsWith(url, allowed_domain)

is_valid_url(url, cfg, nurls) ==
    IF url = <<>> THEN [ok |-> FALSE, reason |-> "empty"]
    ELSE IF normalize_url(url) \in DOMAIN nurls THEN [ok |-> FALSE, reason |-> "duplicate"]
    ELSE IF ~DomainAllowed(url, cfg.target_site.allowed_domain)
         THEN [ok |-> FALSE, reason |-> "domain"]
    ELSE ExcludeLoop(cfg.crawler.exclude_patterns, url)

\* A visited test that compares the URLs as written.
is_url_visited_raw(url, nurls) == url \in {nurls[n] : n \in DOMAIN nurls}

\* WebCrawler.is_url_visited
is_url_visited(url, nurls) == normalize_url(url) \in DOMAIN nurls

\* WebCrawler._calculate_priority.  text is the set of keyword classes the
\* anchor text contains: "high" (index, overview, introduction,
\* getting-started) and "low" (appendix, reference, changelog, history).
BasePriority == 10

calculate_priority(url, text) ==
    LET path_depth == Count(url, "/") - 3
        adjust == IF "high" \in text THEN -5 ELSE IF "low" \in text THEN 5 ELSE 0
        priority == BasePriority + path_depth + adjust
    IN IF priority > 0 THEN priority ELSE 0

\* WebCrawler._extract_links on the anchors of the page's navigation region,
\* each [url |-> the absolute URL urljoin gives, text |-> keyword classes]:
\* the admissible ones with their priority, in document order.
RECURSIVE extract_links(_, _, _)
extract_links(anchors, cfg, nurls) ==
    IF anchors = <<>> THEN <<>>
    ELSE LET a == Head(anchors)
             rest == extract_links(Tail(anchors), cfg, nurls)
         IN IF is_valid_url(a.url, cfg, nurls).ok
            THEN << <<a.url, calculate_priority(a.url, a.text)>> >> \o rest
            ELSE rest

\* ------------------------------------------------------------------------
\* URLPriorityQueue: a heap of (priority, index, url)
\* ------------------------------------------------------------------------

EmptyQueue == [items |-> {}, index |-> 0]

queue_put(q, url, priority) ==
    [items |-> q.items \cup {<<priority, q.index, url>>}, index |-> q.index + 1]

\* The tuple order heapq compares entries by; the index is unique.
EntryLess(a, b) == a[1] < b[1] \/ (a[1] = b[1] /\ a[2] < b[2])

\* heappop with ties between equal priorities going to the latest entry.
queue_min_lifo(q) ==
    CHOOSE e \in q.items :
        \A f \in q.items : f = e \/ e[1] < f[1] \/ (e[1] = f[1] /\ e[2] > f[2])

\* The entry heappop removes.
queue_min(q) == CHOOSE e \in q.items : \A f \in q.items : f = e \/ EntryLess(e, f)

\* A get that finds no entry, whatever the queue holds.
queue_get_none(q) == [found |-> FALSE, url |-> <<>>, queue |-> q]

\* URLPriorityQueue.get: the URL (found is FALSE for None, url is then the
\* empty sequence) and the queue left.
queue_get(q) ==
    IF q.items # {}
    THEN [found |-> TRUE, url |-> queue_min(q)[3],
          queue |-> [q EXCEPT !.items = @ \ {queue_min(q)}]]
    ELSE [found |-> FALSE, url |-> <<>>, queue |-> q]

queue_empty(q) == q.items = {}

queue_size(q) == Cardinality(q.items)

\* The loop that enqueues the extracted links which are not visited.
RECURSIVE enqueue_links(_, _, _)
enqueue_links(q, links, nurls) ==
    IF links = <<>> THEN q
    ELSE enqueue_links(
             IF is_url_visited(Head(links)[1], nurls)
             THEN q ELSE queue_put(q, Head(links)[1], Head(links)[2]),
             Tail(links), nurls)

\* ------------------------------------------------------------------------
\* Configuration
\* ------------------------------------------------------------------------

\* The number n/d (d > 0): the delays and the backoff factor are Python
\* numbers, fractions included.
Rat(n, d) == [n |-> n, d |-> d]

RatMul(a, b) == Rat(a.n * b.n, a.d * b.d)

RatPow(a, k) == Rat(a.n ^ k, a.d ^ k)

RatLeq(a, b) == a.n * b.d <= b.n * a.d

RatEq(a, b) == a.n * b.d = b.n * a.d

\* min(a, b)
RatMin(a, b) == IF RatLeq(b, a) /\ ~RatEq(a, b) THEN b ELSE a

\* A backoff delay without the cap.
calculate_backoff_delay_uncapped(retry_count, cfg) ==
    RatMul(cfg.retry.initial_delay, RatPow(cfg.retry.backoff_factor, retry_count))

\* WebCrawler._calculate_backoff_delay
calculate_backoff_delay(retry_count, cfg) ==
    LET delay == RatMul(cfg.retry.initial_delay,
                        RatPow(cfg.retry.backoff_factor, retry_count))
    IN RatMin(delay, cfg.retry.max_delay)

\* The default of retry.retry_status_codes
RetryStatusCodes == {429, 500, 502, 503, 504}

\* The default of recovery.recovery_file, a path as its stem and suffix.
DefaultRecoveryPath == [stem |-> "./recovery_state", suffix |-> ".json"]

BaseConfig ==
    [target_site |-> [start_url |-> StartUrl, allowed_domain |-> AllowedDomain],
     crawler |-> [exclude_patterns |-> <<ContainsPattern(<<"#">>)>>],
     extractor |-> "main",
     output |-> "./output",
     retry |-> [max_retries |-> MaxRetries, skip_after_failures |-> SkipAfterFailures,
                retry_status_codes |-> RetryStatusCodes,
                initial_delay |-> Rat(1, 1), backoff_factor |-> Rat(2, 1),
                max_delay |-> Rat(60, 1)],
     recovery |-> [recovery_file |-> DefaultRecoveryPath, save_interval |-> SaveInterval,
                   enable_recovery |-> TRUE]]

\* The same crawl with one crawl-relevant field changed.
DriftConfig == [BaseConfig EXCEPT !.extractor = "article"]

\* The same crawl with the checkpoint kept in a file named *.tmp.
TmpPathConfig == [BaseConfig EXCEPT !.recovery.recovery_file.suffix = ".tmp"]

\* The same crawl with recovery switched off.
NoRecoveryConfig == [BaseConfig EXCEPT !.recovery.enable_recovery = FALSE]

\* ------------------------------------------------------------------------
\* The site: the navigation anchors of each page, after urljoin
\* ------------------------------------------------------------------------

Anchor(url, text) == [url |-> url, text |-> text]

IntroAnchors == <<Anchor(StartUrl, {}), Anchor(IntroQuery, {})>>

Site(url) ==
    CASE url = StartUrl ->
             <<Anchor(IntroQuery, {}), Anchor(IntroUrl, {"high"}), Anchor(RefAnchor, {"low"}),
               Anchor(EvilUrl, {}), Anchor(DocsNoSlash, {})>>
      [] url = DocsNoSlash ->
             <<Anchor(IntroQuery, {}), Anchor(IntroUrl, {"high"}), Anchor(RefAnchor, {"low"}),
               Anchor(EvilUrl, {}), Anchor(DocsNoSlash, {})>>
      [] url = IntroUrl -> IntroAnchors
      [] url = IntroQuery -> IntroAnchors
      [] url = GuideUrl -> <<Anchor(GuideA, {}), Anchor(GuideB, {})>>
      [] url = GuideA -> <<Anchor(GuideUrl, {}), Anchor(GuideB, {})>>
      [] OTHER -> <<>>

\* ------------------------------------------------------------------------
\* Recovery checkpoint: RecoveryState, its dictionary form, the files
\* ------------------------------------------------------------------------

\* A set as a list, in one order (list(set)).
RECURSIVE SetToSeq(_)
SetToSeq(S) ==
    IF S = {} THEN <<>>
    ELSE LET x == CHOOSE y \in S : TRUE IN <<x>> \o SetToSeq(S \ {x})

Range(s) == {s[i] : i \in 1..Len(s)}

\* All the lists list(S) may be: the iteration order of a set is not fixed.
Orders(S) == {s \in [1..Cardinality(S) -> S] : Range(s) = S}

\* A JSON value that is a list, and one that is not.
JsonList(s) == [t |-> "list", v |-> s]
JsonNumber == [t |-> "number", v |-> <<>>]

\* RecoveryState.__init__
NewRecoveryState ==
    [start_url |-> <<>>, visited_urls |-> {}, failed_url_counts |-> EmptyDict,
     processed_count |-> 0, success_count |-> 0, failed_count |-> 0,
     crawled_urls |-> <<>>, timestamp |-> "", config_checksum |-> <<>>]

\* RecoveryManager._calculate_config_checksum: the digest of the sorted JSON
\* text of the four crawl-relevant sections, as a one-element list holding
\* what is digested (the empty list is the empty string).
calculate_config_checksum(cfg) ==
    << [target_site |-> cfg.target_site, crawler |-> cfg.crawler,
        extractor |-> cfg.extractor, output |-> cfg.output] >>

\* A dictionary form that leaves the failure counts out.
to_dict_no_counts(st) ==
    [start_url |-> st.start_url,
     visited_urls |-> JsonList(SetToSeq(st.visited_urls)),
     processed_count |-> st.processed_count,
     success_count |-> st.success_count,
     failed_count |-> st.failed_count,
     crawled_urls |-> st.crawled_urls,
     timestamp |-> st.timestamp,
     config_checksum |-> st.config_checksum]

\* RecoveryState.to_dict
to_dict(st) ==
    [start_url |-> st.start_url,
     visited_urls |-> JsonList(SetToSeq(st.visited_urls)),
     failed_url_counts |-> st.failed_url_counts,
     processed_count |-> st.processed_count,
     success_count |-> st.success_count,
     failed_count |-> st.failed_count,
     crawled_urls |-> st.crawled_urls,
     timestamp |-> st.timestamp,
     config_checksum |-> st.config_checksum]

\* set(data.get('visited_urls', [])): raises TypeError unless the value is a list.
VisitedOf(data) ==
    IF "visited_urls" \in DOMAIN data THEN data.visited_urls ELSE JsonList(<<>>)

\* RecoveryState.from_dict: the assignments in order; the second raises when
\* visited_urls is no list and leaves the first done.
from_dict(st, data) ==
    LET s1 == [st EXCEPT !.start_url = DictGet(data, "start_url", <<>>)]
    IN IF VisitedOf(data).t # "list" THEN [raised |-> TRUE, state |-> s1]
       ELSE [raised |-> FALSE,
             state |->
                [start_url |-> s1.start_url,
                 visited_urls |-> Range(VisitedOf(data).v),
                 failed_url_counts |-> DictGet(data, "failed_url_counts", EmptyDict),
                 processed_count |-> DictGet(data, "processed_count", 0),
                 success_count |-> DictGet(data, "success_count", 0),
                 failed_count |-> DictGet(data, "failed_count", 0),
                 crawled_urls |-> DictGet(data, "crawled_urls", <<>>),
                 timestamp |-> DictGet(data, "timestamp", ""),
                 config_checksum |-> DictGet(data, "config_checksum", <<>>)]]

\* A path of the file system: no file, a file that is no JSON text (a
\* partly written or damaged one), or a file holding a JSON object.
NoFile == [kind |-> "none", data |-> EmptyDict]
BrokenFile == [kind |-> "text", data |-> EmptyDict]
JsonFile(data) == [kind |-> "json", data |-> data]

\* A file test that does not look at enable_recovery.
has_recovery_file_any(file, cfg) == file.kind # "none"

\* RecoveryManager.has_recovery_file
has_recovery_file(file, cfg) == file.kind # "none" /\ cfg.recovery.enable_recovery

\* RecoveryManager.can_resume
can_resume(file, cfg) ==
    IF ~has_recovery_file(file, cfg) THEN FALSE
    ELSE IF file.kind # "json" THEN FALSE
    ELSE DictGet(file.data, "config_checksum", <<>>) = calculate_config_checksum(cfg)

\* RecoveryManager.load_state: the result and the manager's state after it.
load_state(file, cfg, st) ==
    IF ~can_resume(file, cfg) THEN [ok |-> FALSE, state |-> st]
    ELSE LET r == from_dict(st, file.data)
         IN [ok |-> ~r.raised, state |-> r.state]

\* Path.with_suffix
with_suffix(path, suffix) == [path EXCEPT !.suffix = suffix]

\* RecoveryManager.recovery_file
recovery_path(cfg) == cfg.recovery.recovery_file

\* temp_file = self.recovery_file.with_suffix('.tmp')
temp_path(cfg) == with_suffix(recovery_path(cfg), ".tmp")

\* The paths of the working directory the program touches.
Paths == {[stem |-> "./recovery_state", suffix |-> s] : s \in {".json", ".tmp"}}

\* open(path, 'w'): the file exists and is empty, and stays partly written
\* until the dump is through.
open_w(fs, path) == [fs EXCEPT ![path] = BrokenFile]

\* json.dump(data, f) run to its end, and the file closed.
json_dump(fs, path, data) == [fs EXCEPT ![path] = JsonFile(data)]

\* Path.replace: the rename of src onto dst.
replace(fs, src, dst) ==
    [p \in Paths |-> IF p = dst THEN fs[src] ELSE IF p = src THEN NoFile ELSE fs[p]]

\* A cleanup that empties the directory.
cleanup_recovery_file_all(fs, cfg) == [p \in Paths |-> NoFile]

\* A cleanup that leaves the file where it is.
cleanup_recovery_file_keep(fs, cfg) == fs

\* RecoveryManager.cleanup_recovery_file
cleanup_recovery_file(fs, cfg) == [fs EXCEPT ![recovery_path(cfg)] = NoFile]

\* The assignments of save_state to self.state.
assign_state(cfg, start_url, visited, failed, processed, success, failedn, crawled) ==
    [start_url |-> start_url, visited_urls |-> visited, failed_url_counts |-> failed,
     processed_count |-> processed, success_count |-> success, failed_count |-> failedn,
     crawled_urls |-> crawled, timestamp |-> "now",
     config_checksum |-> calculate_config_checksum(cfg)]

\* ------------------------------------------------------------------------
\* State
\* ------------------------------------------------------------------------

VARIABLES
    pc,                 \* where the process is: boot, loop, fetch, mark, convert,
                        \* extract, save, save_write, save_rename, done, exited, crashed
    config,             \* the configuration of the running process
    visited_urls,       \* WebCrawler.visited_urls
    normalized_urls,    \* WebCrawler.normalized_urls
    url_queue,          \* WebCrawler.url_queue
    stats,              \* WebCrawler.stats
    failed_url_counts,  \* WebCrawler.failed_url_counts
    current_url,        \* _crawl_and_convert: current_url
    retry_count,        \* _fetch_page: retry_count of the attempt to come
    processed_count,    \* _crawl_and_convert: processed_count
    success_count,      \* _crawl_and_convert: success_count
    failed_count,       \* _crawl_and_convert: failed_count
    crawled_urls,       \* _crawl_and_convert: crawled_urls
    resumed,            \* _crawl_and_convert: resume_from_recovery
    rm_state,           \* RecoveryManager.state
    save_counter,       \* RecoveryManager.save_counter
    forced,             \* inside force_save_current_state
    original_counter,   \* force_save_current_state: original_counter
    files,              \* the files of the working directory, by path
    converted,          \* history: the URLs handed to process_page in this run
    fetched,            \* history: the URLs session.get was called for in this run
    last_attempt,       \* history: the last session.get call: URL, failure count before it,
                        \* retry_count of the call, and what came back
    resume_visited,     \* history: the visited set of the checkpoint this run resumed from
    save_args,          \* history: the arguments of the save_state call being written
    written,            \* history: the arguments of the save whose file is in place
    obs,                \* history: the last call of can_resume / load_state / _is_valid_url
    converted_ever,     \* history: the URLs handed to process_page in any run
    failed_ever,        \* history: the URLs a request failed for in any run
    faults              \* history: number of faults injected so far

crawlerVars == <<visited_urls, normalized_urls, url_queue, stats, failed_url_counts>>
loopVars == <<current_url, retry_count, processed_count, success_count, failed_count,
              crawled_urls, resumed>>
managerVars == <<rm_state, save_counter, forced, original_counter>>
fileVars == <<files>>

\* The file at RecoveryManager.recovery_file
recovery_file == files[recovery_path(config)]
historyVars == <<converted, fetched, last_attempt, resume_visited, save_args, written, obs>>
everVars == <<converted_ever, failed_ever>>
vars == <<pc, config, crawlerVars, loopVars, managerVars, fileVars, historyVars,
          everVars, faults>>

NoUrl == <<>>
NewStats == [total_crawled |-> 0, total_failed |-> 0, total_skipped |-> 0]
NoAttempt == [url |-> NoUrl, failures_before |-> 0, retry_count |-> 0,
              outcome |-> [kind |-> "none", status |-> 0]]
NoArgs == [saved |-> FALSE, state |-> NewRecoveryState]
NoObs == [op |-> "none", ok |-> FALSE, file |-> NoFile, cfg |-> BaseConfig,
          before |-> NewRecoveryState, after |-> NewRecoveryState,
          expected |-> NewRecoveryState, url |-> NoUrl, known |-> {}]

\* The arguments of a save_state call, as the fields they are assigned to.
SaveArgs(start_url, visited, failed, processed, success, failedn, crawled) ==
    [saved |-> TRUE,
     state |-> [NewRecoveryState EXCEPT
                  !.start_url = start_url, !.visited_urls = visited,
                  !.failed_url_counts = failed, !.processed_count = processed,
                  !.success_count = success, !.failed_count = failedn,
                  !.crawled_urls = crawled]]

\* The fields of a RecoveryState the round trip is about.
Payload(st) ==
    [start_url |-> st.start_url, visited_urls |-> st.visited_urls,
     failed_url_counts |-> st.failed_url_counts, processed_count |-> st.processed_count,
     success_count |-> st.success_count, failed_count |-> st.failed_count]

\* The memory of a process that has not run yet.
FreshMemory ==
    /\ visited_urls = {}
    /\ normalized_urls = EmptyDict
    /\ url_queue = EmptyQueue
    /\ stats = NewStats
    /\ failed_url_counts = EmptyDict
    /\ current_url = NoUrl
    /\ retry_count = 0
    /\ processed_count = 0
    /\ success_count = 0
    /\ failed_count = 0
    /\ crawled_urls = <<>>
    /\ resumed = FALSE
    /\ rm_state = NewRecoveryState
    /\ save_counter = 0
    /\ forced = FALSE
    /\ original_counter = 0

FreshHistory ==
    /\ converted = <<>>
    /\ fetched = {}
    /\ last_attempt = NoAttempt
    /\ resume_visited = {}
    /\ save_args = NoArgs
    /\ obs = NoObs

Init ==
    /\ pc = "boot"
    /\ config \in {BaseConfig, NoRecoveryConfig}
    /\ FreshMemory
    /\ FreshHistory
    /\ files = [p \in Paths |-> NoFile]
    /\ written = NoArgs
    /\ converted_ever = {}
    /\ failed_ever = {}
    /\ faults = 0

\* ------------------------------------------------------------------------
\* Start of a process: DocToMarkdownTool.run up to the crawl loop
\* ------------------------------------------------------------------------

\* A restore that leaves the normalized-URL map empty.
rebuild_normalized_none(visited) == EmptyDict

\* The normalized-URL map _crawl_and_convert rebuilds from the restored set.
rebuild_normalized(visited) ==
    [n \in {normalize_url(u) : u \in visited} |->
        CHOOSE u \in visited : normalize_url(u) = n]

\* run() and the head of _crawl_and_convert, in a new process: the first one,
\* or one started after the last was interrupted or killed.  auto_resume is
\* what recovery_config.get('auto_resume', True) gives: run() takes
\* recovery_config from ConfigManager.get_recovery_config, which the sources
\* do not define, so either value is possible.  answer is the operator's
\* reply to the resume question, read only when it is asked; obs.known keeps
\* the reply, and is empty when nothing was asked.
Boot(cfg, auto_resume, answer) ==
    /\ pc \in {"boot", "exited", "crashed"}
    /\ LET asked == can_resume(recovery_file, cfg) /\ auto_resume
           loaded == load_state(recovery_file, cfg, NewRecoveryState)
           resume == asked /\ answer /\ loaded.ok
           st == IF asked /\ answer THEN loaded.state ELSE NewRecoveryState
       IN /\ (asked \/ answer)    \* no question, no answer: one transition
          /\ files' = IF asked /\ ~answer THEN cleanup_recovery_file(files, cfg) ELSE files
          /\ rm_state' = st
          /\ resumed' = resume
          /\ processed_count' = IF resume THEN st.processed_count ELSE 0
          /\ success_count' = IF resume THEN st.success_count ELSE 0
          /\ failed_count' = IF resume THEN st.failed_count ELSE 0
          /\ crawled_urls' = IF resume THEN st.crawled_urls ELSE <<>>
          /\ visited_urls' = IF resume THEN st.visited_urls ELSE {}
          /\ failed_url_counts' = IF resume THEN st.failed_url_counts ELSE EmptyDict
          /\ normalized_urls' = IF resume THEN rebuild_normalized(st.visited_urls)
                                ELSE EmptyDict
          /\ stats' = [NewStats EXCEPT
                         !.total_crawled = IF resume THEN Len(st.crawled_urls) ELSE 0]
          /\ resume_visited' = IF resume THEN st.visited_urls ELSE {}
          /\ obs' = [NoObs EXCEPT !.op = IF asked /\ answer THEN "load_state" ELSE "can_resume",
                                  !.ok = IF asked /\ answer THEN loaded.ok
                                         ELSE can_resume(recovery_file, cfg),
                                  !.file = recovery_file, !.cfg = cfg, !.after = st,
                                  !.expected = written.state,
                                  !.known = IF ~asked THEN {}
                                            ELSE IF answer THEN {"y"} ELSE {"n"}]
    /\ url_queue' = queue_put(EmptyQueue, cfg.target_site.start_url, 0)
    /\ config' = cfg
    /\ pc' = "loop"
    /\ current_url' = NoUrl
    /\ retry_count' = 0
    /\ save_counter' = 0
    /\ forced' = FALSE
    /\ original_counter' = 0
    /\ converted' = <<>>
    /\ fetched' = {}
    /\ last_attempt' = NoAttempt
    /\ save_args' = NoArgs
    /\ written' = IF files'[recovery_path(cfg)] = NoFile THEN NoArgs ELSE written
    /\ UNCHANGED <<everVars, faults>>

\* ------------------------------------------------------------------------
\* The crawl loop of _crawl_and_convert
\* ------------------------------------------------------------------------

\* while not url_queue.empty(): get the next URL; skip it when visited.
Dequeue ==
    /\ pc = "loop"
    /\ ~queue_empty(url_queue)
    /\ LET r == queue_get(url_queue)
           url == r.url
       IN /\ r.found
          /\ url_queue' = r.queue
          /\ current_url' = url
          /\ IF is_url_visited(url, normalized_urls)
             THEN /\ stats' = [stats EXCEPT !.total_skipped = @ + 1]
                  /\ pc' = "loop"
                  /\ UNCHANGED processed_count
             ELSE /\ processed_count' = processed_count + 1
                  /\ pc' = "fetch"
                  /\ UNCHANGED stats
    /\ retry_count' = 0
    /\ UNCHANGED <<config, visited_urls, normalized_urls, failed_url_counts,
                   success_count, failed_count, crawled_urls, resumed,
                   managerVars, fileVars, historyVars, everVars, faults>>

\* A skip test that lets one more attempt through.
should_skip_url_late(url, counts, cfg) ==
    DictGet(counts, url, 0) > cfg.retry.skip_after_failures

\* WebCrawler._should_skip_url
should_skip_url(url, counts, cfg) ==
    DictGet(counts, url, 0) >= cfg.retry.skip_after_failures

\* A failure count that only notes that the URL has failed.
increment_failure_count_flag(counts, url) == DictPut(counts, url, 1)

\* WebCrawler._increment_failure_count
increment_failure_count(counts, url) == DictPut(counts, url, DictGet(counts, url, 0) + 1)

\* requests.Response.__bool__: the response is true when its status is below 400.
ResponseTruthy(status) == status < 400

\* status_code = e.response.status_code if e.response else 0
StatusSeen(status) == IF ResponseTruthy(status) THEN status ELSE 0

\* WebCrawler._should_retry_status_code
should_retry_status_code(status_code, cfg) == status_code \in cfg.retry.retry_status_codes

\* ErrorHandler.should_retry for the NetworkError _fetch_page builds.
should_retry == TRUE

\* The status_forcelist of the urllib3 Retry the session is mounted with.
StatusForcelist == {429, 500, 502, 503, 504}

\* What session.get and raise_for_status may meet: a page, a timeout, a
\* connection error, a response with an error status (the last one, after
\* the retries of the session's adapter), another requests exception, or an
\* exception of another kind.
Outcomes ==
    {[kind |-> "ok", status |-> 200], [kind |-> "timeout", status |-> 0],
     [kind |-> "connection", status |-> 0], [kind |-> "status", status |-> 404],
     [kind |-> "status", status |-> 408], [kind |-> "status", status |-> 503],
     [kind |-> "request", status |-> 0], [kind |-> "other", status |-> 0]}

\* The except clause of _fetch_page that handles the outcome.  A status of
\* the forcelist makes the adapter retry and then raise RetryError, a
\* RequestException; any other error status comes back as a response and
\* raise_for_status raises HTTPError.
Raised(outcome) ==
    IF outcome.kind = "status"
    THEN IF outcome.status \in StatusForcelist THEN "request" ELSE "http"
    ELSE outcome.kind

\* A retry decision that never retries.
RetryNever(outcome, count, cfg) == FALSE

\* A retry decision that retries after every failure.
RetryAlways(outcome, count, cfg) == TRUE

\* Whether _fetch_page calls itself again after a failed attempt.
RetryAfter(outcome, count, cfg) ==
    CASE Raised(outcome) \in {"timeout", "connection", "request"} ->
             count < cfg.retry.max_retries - 1 /\ should_retry
      [] Raised(outcome) = "http" ->
             should_retry_status_code(StatusSeen(outcome.status), cfg)
             /\ count < cfg.retry.max_retries - 1 /\ should_retry
      [] OTHER -> FALSE

\* A loop that puts the URL back on the queue when its fetch gave nothing.
queue_after_none_requeued(q, url) == queue_put(q, url, BasePriority)

\* if html_content is None: failed_count += 1; continue -- the queue is left
\* as it is.
queue_after_none(q, url) == q

\* One call of _fetch_page: the skip test, then one session.get; when
\* fetch_page returns None the loop counts it and goes on.
FetchAttempt(outcome) ==
    /\ pc = "fetch"
    /\ IF should_skip_url(current_url, failed_url_counts, config)
       THEN /\ outcome.kind = "ok"    \* no request is sent: one transition
            /\ failed_count' = failed_count + 1
            /\ pc' = "loop"
            /\ UNCHANGED <<failed_url_counts, stats, retry_count, fetched, last_attempt,
                           failed_ever, faults>>
       ELSE /\ fetched' = fetched \cup {current_url}
            /\ last_attempt' = [url |-> current_url,
                                failures_before |-> DictGet(failed_url_counts, current_url, 0),
                                retry_count |-> retry_count, outcome |-> outcome]
            /\ IF outcome.kind = "ok"
               THEN /\ pc' = "mark"
                    /\ UNCHANGED <<failed_url_counts, stats, retry_count, failed_count,
                                   failed_ever, faults>>
               ELSE /\ faults < MaxFaults
                    /\ faults' = faults + 1
                    /\ failed_ever' = failed_ever \cup {current_url}
                    /\ failed_url_counts' =
                           increment_failure_count(failed_url_counts, current_url)
                    /\ stats' = [stats EXCEPT !.total_failed = @ + 1]
                    /\ IF RetryAfter(outcome, retry_count, config)
                       THEN /\ retry_count' = retry_count + 1
                            /\ pc' = "fetch"
                            /\ UNCHANGED failed_count
                       ELSE /\ failed_count' = failed_count + 1
                            /\ pc' = "loop"
                            /\ UNCHANGED retry_count
    /\ url_queue' = IF pc' = "loop" THEN queue_after_none(url_queue, current_url)
                    ELSE url_queue
    /\ UNCHANGED <<config, visited_urls, normalized_urls, current_url,
                   processed_count, success_count, crawled_urls, resumed,
                   managerVars, fileVars, converted, resume_visited, save_args, written, obs,
                   converted_ever>>

\* A mark that starts the statistics anew.
mark_url_as_visited_restat(url, visited, nurls, st) ==
    [visited |-> visited \cup {url}, normalized |-> DictPut(nurls, normalize_url(url), url),
     stats |-> [NewStats EXCEPT !.total_crawled = st.total_crawled + 1]]

\* A mark that keeps only the URL it is given.
mark_url_as_visited_only(url, visited, nurls, st) ==
    [visited |-> {url}, normalized |-> DictPut(EmptyDict, normalize_url(url), url),
     stats |-> [st EXCEPT !.total_crawled = @ + 1]]

\* WebCrawler.mark_url_as_visited: the visited set, the normalized-URL map and
\* the statistics after the call.
mark_url_as_visited(url, visited, nurls, st) ==
    LET normalized == normalize_url(url)
    IN IF normalized \notin DOMAIN nurls
       THEN [visited |-> visited \cup {url}, normalized |-> DictPut(nurls, normalized, url),
             stats |-> [st EXCEPT !.total_crawled = @ + 1]]
       ELSE [visited |-> visited, normalized |-> nurls, stats |-> st]

\* mark_url_as_visited(current_url), then crawled_urls.append(current_url)
Mark ==
    /\ pc = "mark"
    /\ LET m == mark_url_as_visited(current_url, visited_urls, normalized_urls, stats)
       IN /\ normalized_urls' = m.normalized
          /\ visited_urls' = m.visited
          /\ stats' = m.stats
    /\ crawled_urls' = Append(crawled_urls, current_url)
    /\ pc' = "convert"
    /\ UNCHANGED <<config, url_queue, failed_url_counts, current_url, retry_count,
                   processed_count, success_count, failed_count, resumed,
                   managerVars, fileVars, historyVars, everVars, faults>>

\* A conversion whose failure ends the iteration.
ConvertAbort(ok) ==
    /\ pc = "convert"
    /\ ok \/ faults < MaxFaults
    /\ faults' = IF ok THEN faults ELSE faults + 1
    /\ converted' = Append(converted, current_url)
    /\ converted_ever' = converted_ever \cup {current_url}
    /\ success_count' = IF ok THEN success_count + 1 ELSE success_count
    /\ failed_count' = IF ok THEN failed_count ELSE failed_count + 1
    /\ pc' = IF ok THEN "extract" ELSE "loop"
    /\ UNCHANGED <<config, crawlerVars, current_url, retry_count, processed_count,
                   crawled_urls, resumed, managerVars, fileVars,
                   fetched, last_attempt, resume_visited, save_args, written, obs, failed_ever>>

\* converter.process_page(current_url, html_content): a path, or None.
Convert(ok) ==
    /\ pc = "convert"
    /\ ok \/ faults < MaxFaults
    /\ faults' = IF ok THEN faults ELSE faults + 1
    /\ converted' = Append(converted, current_url)
    /\ converted_ever' = converted_ever \cup {current_url}
    /\ success_count' = IF ok THEN success_count + 1 ELSE success_count
    /\ failed_count' = IF ok THEN failed_count ELSE failed_count + 1
    /\ pc' = "extract"
    /\ UNCHANGED <<config, crawlerVars, current_url, retry_count, processed_count,
                   crawled_urls, resumed, managerVars, fileVars,
                   fetched, last_attempt, resume_visited, save_args, written, obs, failed_ever>>

\* extract_links_from_content and the loop that enqueues the unvisited links.
Extract ==
    /\ pc = "extract"
    /\ url_queue' = enqueue_links(url_queue,
                                  extract_links(Site(current_url), config, normalized_urls),
                                  normalized_urls)
    /\ pc' = "save"
    /\ UNCHANGED <<config, visited_urls, normalized_urls, stats, failed_url_counts,
                   loopVars, managerVars, fileVars, historyVars, everVars, faults>>

\* ------------------------------------------------------------------------
\* RecoveryManager.save_state, in the steps a fault can separate
\* ------------------------------------------------------------------------

\* The end of a save_state call: back in the loop, or, inside
\* force_save_current_state, the counter is put back and the process exits.
SaveReturn(counter) ==
    /\ save_counter' = IF forced THEN original_counter ELSE counter
    /\ pc' = IF forced THEN "exited" ELSE "loop"
    /\ forced' = FALSE
    /\ UNCHANGED original_counter

\* An interval test that lets every call write.
IntervalHitAlways(n, cfg) == TRUE

\* Whether the call that makes the counter n writes the checkpoint.
IntervalHit(n, cfg) == n % cfg.recovery.save_interval = 0

\* The periodic save_state call of the loop: the interval test, the
\* assignments to self.state, and the temporary file opened for writing.
SaveBegin ==
    /\ pc = "save"
    /\ IF ~config.recovery.enable_recovery
       THEN /\ pc' = "loop"
            /\ UNCHANGED <<managerVars, files, save_args>>
       ELSE IF ~IntervalHit(save_counter + 1, config)
       THEN /\ pc' = "loop"
            /\ save_counter' = save_counter + 1
            /\ UNCHANGED <<rm_state, forced, original_counter, files, save_args>>
       ELSE /\ pc' = "save_write"
            /\ save_counter' = save_counter + 1
            /\ rm_state' = assign_state(config, config.target_site.start_url, visited_urls,
                                        failed_url_counts, processed_count, success_count,
                                        failed_count, crawled_urls)
            /\ save_args' = SaveArgs(config.target_site.start_url, visited_urls,
                                     failed_url_counts, processed_count, success_count,
                                     failed_count, crawled_urls)
            /\ files' = open_w(files, temp_path(config))
            /\ UNCHANGED <<forced, original_counter>>
    /\ UNCHANGED <<config, crawlerVars, loopVars,
                   converted, fetched, last_attempt, resume_visited, written, obs,
                   everVars, faults>>

\* json.dump into the temporary file: it completes, or it raises and the
\* exception is logged and swallowed by save_state.
SaveWrite(ok) ==
    /\ pc = "save_write"
    /\ ok \/ faults < MaxFaults
    /\ faults' = IF ok THEN faults ELSE faults + 1
    /\ IF ok
       THEN /\ files' = json_dump(files, temp_path(config), to_dict(rm_state))
            /\ pc' = "save_rename"
            /\ UNCHANGED <<save_counter, forced, original_counter>>
       ELSE /\ SaveReturn(save_counter)
            /\ UNCHANGED files
    /\ UNCHANGED <<config, crawlerVars, loopVars, rm_state, historyVars,
                   everVars>>

\* temp_file.replace(self.recovery_file)
SaveRename ==
    /\ pc = "save_rename"
    /\ files' = replace(files, temp_path(config), recovery_path(config))
    /\ written' = save_args
    /\ SaveReturn(save_counter)
    /\ UNCHANGED <<config, crawlerVars, loopVars, rm_state,
                   converted, fetched, last_attempt, resume_visited, save_args, obs,
                   everVars, faults>>

\* ------------------------------------------------------------------------
\* The ends of a process
\* ------------------------------------------------------------------------

\* The queue is empty: _crawl_and_convert returns and run() deletes the
\* checkpoint.
Drain ==
    /\ pc = "loop"
    /\ queue_empty(url_queue)
    /\ files' = cleanup_recovery_file(files, config)
    /\ written' = NoArgs
    /\ pc' = "done"
    /\ UNCHANGED <<config, crawlerVars, loopVars, managerVars,
                   converted, fetched, last_attempt, resume_visited, save_args, obs,
                   everVars, faults>>

Running == {"loop", "fetch", "mark", "convert", "extract", "save", "save_write", "save_rename"}

\* A forced save that leaves the counter as the periodic calls left it.
forced_counter_kept(counter, cfg) == counter

\* force_save_current_state: the counter it sets before it calls save_state.
forced_counter(counter, cfg) == cfg.recovery.save_interval - 1

\* KeyboardInterrupt, or an exception that escapes _crawl_and_convert: run()
\* calls _save_interruption_state, which calls force_save_current_state with
\* figures taken from the crawler, and raises again; main() exits with status
\* 1 (pc "exited").  crawled is list(visited_urls), in whatever order the set
\* iterates.
Interrupt(crawled) ==
    /\ pc \in Running
    /\ ~forced
    /\ faults < MaxFaults
    /\ faults' = faults + 1
    /\ crawled \in Orders(visited_urls)
    /\ IF ~config.recovery.enable_recovery
       THEN /\ pc' = "exited"
            /\ UNCHANGED <<managerVars, files, save_args>>
       ELSE IF ~IntervalHit(forced_counter(save_counter, config) + 1, config)
       THEN /\ pc' = "exited"
            /\ UNCHANGED <<managerVars, files, save_args>>
       ELSE /\ pc' = "save_write"
            /\ forced' = TRUE
            /\ original_counter' = save_counter
            /\ save_counter' = forced_counter(save_counter, config) + 1
            /\ rm_state' = assign_state(config, config.target_site.start_url, visited_urls,
                                        failed_url_counts, Cardinality(visited_urls),
                                        stats.total_crawled, stats.total_failed, crawled)
            /\ save_args' = SaveArgs(config.target_site.start_url, visited_urls,
                                     failed_url_counts, Cardinality(visited_urls),
                                     stats.total_crawled, stats.total_failed, crawled)
            /\ files' = open_w(files, temp_path(config))
    /\ UNCHANGED <<config, crawlerVars, loopVars,
                   converted, fetched, last_attempt, resume_visited, written, obs, everVars>>

\* The process is killed: its memory is gone, the files stay as they are.
Crash ==
    /\ pc \in Running
    /\ faults < MaxFaults
    /\ faults' = faults + 1
    /\ pc' = "crashed"
    /\ visited_urls' = {}
    /\ normalized_urls' = EmptyDict
    /\ url_queue' = EmptyQueue
    /\ stats' = NewStats
    /\ failed_url_counts' = EmptyDict
    /\ current_url' = NoUrl
    /\ retry_count' = 0
    /\ processed_count' = 0
    /\ success_count' = 0
    /\ failed_count' = 0
    /\ crawled_urls' = <<>>
    /\ resumed' = FALSE
    /\ rm_state' = NewRecoveryState
    /\ save_counter' = 0
    /\ forced' = FALSE
    /\ original_counter' = 0
    /\ converted' = <<>>
    /\ fetched' = {}
    /\ last_attempt' = NoAttempt
    /\ resume_visited' = {}
    /\ save_args' = NoArgs
    /\ obs' = NoObs
    /\ UNCHANGED <<config, fileVars, written, everVars>>

Next ==
    \/ \E auto_resume, answer \in BOOLEAN : Boot(config, auto_resume, answer)
    \/ Dequeue
    \/ \E outcome \in Outcomes : FetchAttempt(outcome)
    \/ Mark
    \/ \E ok \in BOOLEAN : Convert(ok)
    \/ Extract
    \/ SaveBegin
    \/ \E ok \in BOOLEAN : SaveWrite(ok)
    \/ SaveRename
    \/ Drain
    \/ \E crawled \in Orders(visited_urls) : Interrupt(crawled)
    \/ Crash

Spec == Init /\ [][Next]_vars

\* ------------------------------------------------------------------------
\* Properties of the crawl
\* ------------------------------------------------------------------------

Normalized(S) == {normalize_url(u) : u \in S}

\* C1: in one run the converter is never called for two URLs of the same
\* normalized form: a URL on its way to the converter is not yet a key of the
\* normalized-URL map while it is fetched, and is one when the converter is
\* called.
NoDuplicateVisits ==
    /\ \A i, j \in 1..Len(converted) :
           i # j => normalize_url(converted[i]) # normalize_url(converted[j])
    /\ pc \in {"fetch", "mark"} => normalize_url(current_url) \notin DOMAIN normalized_urls
    /\ pc = "convert" => normalize_url(current_url) \in DOMAIN normalized_urls

\* A run ended in which two pages were converted and a queued URL was
\* dropped as visited.
DuplicateDropped ==
    pc = "done" /\ ~resumed /\ Len(converted) >= 2 /\ stats.total_skipped >= 1

\* C2: in a run resumed from a checkpoint, no URL whose normalized form is
\* that of a URL of the checkpoint's visited set is requested or converted.
NoDuplicateWorkAcrossResume ==
    resumed =>
        \A u \in fetched \cup Range(converted) :
            normalize_url(u) \notin Normalized(resume_visited)

\* A resumed run that took a URL of the checkpoint's visited set from the
\* queue and dropped it.
ResumedSkipsVisited ==
    /\ resumed /\ resume_visited # {} /\ pc = "loop"
    /\ current_url # NoUrl /\ normalize_url(current_url) \in Normalized(resume_visited)
    /\ stats.total_skipped >= 1

\* A link the admission test passes when nothing is visited yet.
Admissible(url) == is_valid_url(url, config, EmptyDict).ok

\* The page of the URL was handed to the converter in some run, or a request
\* for it failed in some run.
Handled(url) ==
    normalize_url(url) \in Normalized(converted_ever) \cup Normalized(failed_ever)

\* C3: when a run ends that resumed from a checkpoint whose visited pages
\* were all converted, the start page and every admissible link of every
\* converted page has been handed to the converter in the interrupted or the
\* resumed run, unless its request failed.
ResumeCoversSite ==
    (pc = "done" /\ resumed /\ resume_visited \subseteq converted_ever) =>
        /\ Handled(StartUrl)
        /\ \A p \in converted_ever : \A i \in DOMAIN Site(p) :
               Admissible(Site(p)[i].url) => Handled(Site(p)[i].url)

\* C4: no request is sent for a URL whose failure count has reached
\* skip_after_failures, in a first attempt, a retry or a resumed run.
AutoSkip ==
    last_attempt.url # NoUrl =>
        last_attempt.failures_before < config.retry.skip_after_failures

\* A resumed run took from the queue a URL whose restored failure count is
\* at the threshold, and went back to the loop without a request for it.
ResumedRunSkipsFailedUrl ==
    /\ resumed /\ pc = "loop" /\ current_url # NoUrl
    /\ ~is_url_visited(current_url, normalized_urls)
    /\ DictGet(failed_url_counts, current_url, 0) >= config.retry.skip_after_failures
    /\ current_url \notin fetched

\* C5: load_state on the checkpoint a save put in place, under the
\* configuration of the save, succeeds and gives the start URL, visited set,
\* failure counts and the three counters of the save.
CheckpointRoundTrip ==
    obs.op = "load_state" =>
        obs.ok /\ Payload(obs.after) = Payload(obs.expected)

\* A checkpoint with a visited URL and a failure count was loaded.
LoadedCheckpoint ==
    /\ obs.op = "load_state" /\ obs.ok /\ pc = "loop"
    /\ obs.after.visited_urls # {}
    /\ DOMAIN obs.after.failed_url_counts # {}

\* The file holds the whole JSON text of the save that was put in place last.
CompleteCheckpoint(file) ==
    /\ file.kind = "json"
    /\ written.saved
    /\ LET r == from_dict(NewRecoveryState, file.data)
       IN ~r.raised /\ Payload(r.state) = Payload(written.state)

\* Under the default recovery_file the canonical path holds no file or a
\* complete checkpoint in every state of a crawl, and neither a step of a
\* save before its rename nor a kill changes the file at the canonical path.
AtomicCheckpointWrite ==
    /\ [](recovery_file = NoFile \/ CompleteCheckpoint(recovery_file))
    /\ [][(pc \in {"save", "save_write"} \/ pc' = "crashed")
             => files'[recovery_path(config)] = files[recovery_path(config)]]_vars

\* The process was killed with the temporary file partly written, and the
\* checkpoint of an earlier save is in place.
KilledMidWrite ==
    /\ pc = "crashed"
    /\ files[temp_path(config)] = BrokenFile
    /\ CompleteCheckpoint(recovery_file)

\* ------------------------------------------------------------------------
\* The recovery manager on its own: any checkpoint file, any configuration
\* ------------------------------------------------------------------------

\* The same crawl with another crawl boundary.
MovedConfig ==
    [BaseConfig EXCEPT !.target_site.allowed_domain =
                           <<"https", ":", "/", "/", "y", ".", "test">>]

RecoveryConfigs == {BaseConfig, DriftConfig, NoRecoveryConfig, MovedConfig, TmpPathConfig}

\* The state of a crawl two pages in, as save_state assigns it under cfg.
SavedState(cfg) ==
    assign_state(cfg, StartUrl, {StartUrl, IntroUrl}, DictPut(EmptyDict, RefAnchor, 2),
                 3, 2, 1, <<StartUrl, IntroUrl>>)

\* What may be found at the checkpoint path: nothing, a damaged file, a
\* checkpoint written under a configuration, a JSON object without a checksum,
\* and a checkpoint whose visited_urls was replaced by a number.
RecoveryFiles ==
    {NoFile, BrokenFile}
    \cup {JsonFile(to_dict(SavedState(c))) : c \in {BaseConfig, DriftConfig}}
    \cup {JsonFile([start_url |-> StartUrl, visited_urls |-> JsonList(<<StartUrl>>)]),
          JsonFile([to_dict(SavedState(BaseConfig)) EXCEPT !.visited_urls = JsonNumber])}

RecoveryInit ==
    /\ pc = "manager"
    /\ config \in RecoveryConfigs
    /\ FreshMemory
    /\ FreshHistory
    /\ \E f \in RecoveryFiles : files = [p \in Paths |-> IF p = recovery_path(config) THEN f ELSE NoFile]
    /\ written = NoArgs
    /\ converted_ever = {}
    /\ failed_ever = {}
    /\ faults = 0

\* The variables the recovery manager does not touch.
crawlVars == <<crawlerVars, loopVars, save_counter, forced, original_counter,
               converted, fetched, last_attempt, resume_visited, save_args, written,
               everVars, faults>>

\* A call of can_resume()
CallCanResume ==
    /\ pc = "manager"
    /\ obs' = [NoObs EXCEPT !.op = "can_resume", !.ok = can_resume(recovery_file, config),
                            !.file = recovery_file, !.cfg = config,
                            !.before = rm_state, !.after = rm_state]
    /\ UNCHANGED <<pc, config, rm_state, files, crawlVars>>

\* A call of load_state()
CallLoadState ==
    /\ pc = "manager"
    /\ LET r == load_state(recovery_file, config, rm_state)
       IN /\ rm_state' = r.state
          /\ obs' = [NoObs EXCEPT !.op = "load_state", !.ok = r.ok,
                                  !.file = recovery_file, !.cfg = config,
                                  !.before = rm_state, !.after = r.state]
    /\ UNCHANGED <<pc, config, files, crawlVars>>

\* A call of save_state() that writes, up to the temporary file opened:
\* the state is assigned and the file is there, empty.  obs keeps the
\* checkpoint file the call found.
CallSaveState ==
    /\ pc = "manager"
    /\ config.recovery.enable_recovery
    /\ rm_state' = SavedState(config)
    /\ files' = open_w(files, temp_path(config))
    /\ pc' = "manager_write"
    /\ obs' = [NoObs EXCEPT !.op = "save_state", !.file = recovery_file, !.cfg = config]
    /\ UNCHANGED <<config, crawlVars>>

\* json.dump into the temporary file: it completes, or it raises part of
\* the way and save_state logs the exception and returns.
SaveDump(ok) ==
    /\ pc = "manager_write"
    /\ files' = IF ok THEN json_dump(files, temp_path(config), to_dict(rm_state)) ELSE files
    /\ pc' = IF ok THEN "manager_rename" ELSE "manager"
    /\ UNCHANGED <<config, rm_state, obs, crawlVars>>

\* temp_file.replace(self.recovery_file), and save_state returns.
SaveReplace ==
    /\ pc = "manager_rename"
    /\ files' = replace(files, temp_path(config), recovery_path(config))
    /\ pc' = "manager"
    /\ UNCHANGED <<config, rm_state, obs, crawlVars>>

\* The process is killed inside save_state and started again: a new
\* RecoveryManager over the files as they are.
Kill ==
    /\ pc \in {"manager_write", "manager_rename"}
    /\ pc' = "manager"
    /\ rm_state' = NewRecoveryState
    /\ UNCHANGED <<config, files, obs, crawlVars>>

\* A call of cleanup_recovery_file().  obs keeps the file the call found and,
\* in known, whether the call before it was a cleanup as well.
CallCleanup ==
    /\ pc = "manager"
    /\ files' = cleanup_recovery_file(files, config)
    /\ obs' = [NoObs EXCEPT !.op = "cleanup", !.ok = TRUE, !.file = recovery_file,
                            !.cfg = config, !.before = rm_state, !.after = rm_state,
                            !.known = {obs.op} \cap {"cleanup"}]
    /\ UNCHANGED <<pc, config, rm_state, crawlVars>>

\* The program is started again under another configuration: a new
\* RecoveryManager with an empty state.
Reconfigure(cfg) ==
    /\ pc = "manager"
    /\ cfg # config
    /\ config' = cfg
    /\ rm_state' = NewRecoveryState
    /\ UNCHANGED <<pc, files, obs, crawlVars>>

RecoveryNext ==
    \/ CallCanResume
    \/ CallLoadState
    \/ CallSaveState
    \/ \E ok \in BOOLEAN : SaveDump(ok)
    \/ SaveReplace
    \/ Kill
    \/ CallCleanup
    \/ \E cfg \in RecoveryConfigs : Reconfigure(cfg)

RecoverySpec == RecoveryInit /\ [][RecoveryNext]_vars

\* C8: no step makes the file at the canonical path a partly written one:
\* what is partly written is the temporary file, never the checkpoint.
CanonicalNeverPartial ==
    [][(config' = config /\ files'[recovery_path(config)].kind = "text")
          => files[recovery_path(config)].kind = "text"]_vars

\* The checksum in the file is the checksum of the configuration.
ChecksumMatches(file, cfg) ==
    /\ file.kind = "json"
    /\ "config_checksum" \in DOMAIN file.data
    /\ file.data.config_checksum = calculate_config_checksum(cfg)

\* C6, as stated: can_resume() is true exactly when the checkpoint file
\* exists and the checksum in it is the checksum of the configuration.
CanResumeIffFileMatches ==
    obs.op = "can_resume" =>
        (obs.ok <=> (obs.file.kind # "none" /\ ChecksumMatches(obs.file, obs.cfg)))

\* C6, amended: can_resume() is true exactly when recovery is enabled, the
\* checkpoint file exists and the checksum in it is the checksum of the
\* configuration.
CanResumeIffEnabledAndFileMatches ==
    obs.op = "can_resume" =>
        (obs.ok <=> /\ obs.cfg.recovery.enable_recovery
                    /\ obs.file.kind # "none"
                    /\ ChecksumMatches(obs.file, obs.cfg))

\* can_resume() was called with recovery switched off on a checkpoint of the
\* configuration, and said no.
CanResumeRefusedWhenDisabled ==
    /\ obs.op = "can_resume" /\ ~obs.ok
    /\ ~obs.cfg.recovery.enable_recovery
    /\ ChecksumMatches(obs.file, obs.cfg)

\* C7: load_state() succeeds only when can_resume() holds, and a failed
\* load_state() leaves the manager's RecoveryState as it was.
LoadFailureLeavesState ==
    obs.op = "load_state" =>
        /\ obs.ok => (obs.cfg.recovery.enable_recovery /\ ChecksumMatches(obs.file, obs.cfg))
        /\ ~obs.ok => obs.after = obs.before

\* ------------------------------------------------------------------------
\* Link admission on its own: any exclusion list, any visited map
\* ------------------------------------------------------------------------

HashPattern == ContainsPattern(<<"#">>)
IntroPattern == ContainsPattern(<<"intro">>)

PatternLists ==
    {<<>>, <<HashPattern>>, <<InvalidPattern>>, <<InvalidPattern, HashPattern>>,
     <<IntroPattern, InvalidPattern, HashPattern>>}

AdmitConfigs ==
    {[BaseConfig EXCEPT !.crawler.exclude_patterns = l, !.target_site.allowed_domain = d] :
        l \in PatternLists, d \in {AllowedDomain, <<>>}}

\* The URLs _is_valid_url is asked about.
AdmitUrls == {<<>>, StartUrl, DocsNoSlash, IntroUrl, IntroQuery, RefAnchor, EvilUrl, HttpUrl}

AdmitInit ==
    /\ pc = "admit"
    /\ config \in AdmitConfigs
    /\ FreshMemory
    /\ FreshHistory
    /\ files = [p \in Paths |-> NoFile]
    /\ written = NoArgs
    /\ converted_ever = {}
    /\ failed_ever = {}
    /\ faults = 0

\* The variables link admission does not touch.
restVars == <<failed_url_counts, loopVars, managerVars, fileVars, converted, fetched,
              last_attempt, resume_visited, save_args, written, everVars, faults>>

\* A call of _is_valid_url(url)
CallIsValidUrl(url) ==
    /\ pc = "admit"
    /\ obs' = [NoObs EXCEPT !.op = "is_valid_url", !.url = url, !.cfg = config,
                            !.ok = is_valid_url(url, config, normalized_urls).ok,
                            !.known = DOMAIN normalized_urls]
    /\ UNCHANGED <<pc, config, visited_urls, normalized_urls, url_queue, stats, restVars>>

\* A call of mark_url_as_visited(url)
CallMarkVisited(url) ==
    /\ pc = "admit"
    /\ normalize_url(url) \notin DOMAIN normalized_urls
    /\ normalized_urls' = DictPut(normalized_urls, normalize_url(url), url)
    /\ visited_urls' = visited_urls \cup {url}
    /\ stats' = [stats EXCEPT !.total_crawled = @ + 1]
    /\ UNCHANGED <<pc, config, url_queue, obs, restVars>>

\* extract_links_from_content on a page and the loop of _crawl_and_convert
\* that puts the links on the queue.
CallExtract(page) ==
    /\ pc = "admit"
    /\ LET q == enqueue_links(url_queue, extract_links(Site(page), config, normalized_urls),
                              normalized_urls)
       IN /\ q.index <= MaxQueued
          /\ q # url_queue
          /\ url_queue' = q
    /\ UNCHANGED <<pc, config, visited_urls, normalized_urls, stats, obs, restVars>>

AdmitNext ==
    \/ \E url \in AdmitUrls : CallIsValidUrl(url)
    \/ \E url \in {StartUrl, IntroUrl} : CallMarkVisited(url)
    \/ \E page \in {StartUrl, IntroUrl} : CallExtract(page)

AdmitSpec == AdmitInit /\ [][AdmitNext]_vars

\* C9: with an allowed_domain configured, _is_valid_url admits no URL of
\* another host and no URL of another host is on the queue.
OnlyAllowedHostAdmitted ==
    /\ (obs.op = "is_valid_url" /\ obs.ok /\ obs.cfg.target_site.allowed_domain # <<>>)
           => HostOf(obs.url) = HostOf(obs.cfg.target_site.allowed_domain)
    /\ config.target_site.allowed_domain # <<>>
           => \A e \in url_queue.items :
                  HostOf(e[3]) = HostOf(config.target_site.allowed_domain)

\* A pattern of the configuration that compiles matches the URL.
ValidPatternMatches(url, cfg) ==
    \E i \in DOMAIN cfg.crawler.exclude_patterns :
        /\ cfg.crawler.exclude_patterns[i].kind = "contains"
        /\ Contains(url, cfg.crawler.exclude_patterns[i].sub)

\* C10: no URL on the queue matches a valid exclusion pattern, and
\* _is_valid_url admits a URL exactly when it is not empty, not visited, in
\* the allowed domain and matched by no valid pattern, whatever invalid
\* patterns the list holds and wherever they stand in it.
ExclusionPatternsApplied ==
    /\ \A e \in url_queue.items : ~ValidPatternMatches(e[3], config)
    /\ obs.op = "is_valid_url" =>
           (obs.ok <=> /\ obs.url # <<>>
                       /\ normalize_url(obs.url) \notin obs.known
                       /\ DomainAllowed(obs.url, obs.cfg.target_site.allowed_domain)
                       /\ ~ValidPatternMatches(obs.url, obs.cfg))

\* _is_valid_url turned down a URL for a valid pattern that stands after an
\* invalid one, and admitted links are on the queue.
RejectedAfterInvalidPattern ==
    /\ obs.op = "is_valid_url" /\ ~obs.ok
    /\ obs.url # <<>> /\ normalize_url(obs.url) \notin obs.known
    /\ DomainAllowed(obs.url, obs.cfg.target_site.allowed_domain)
    /\ \E i, j \in DOMAIN obs.cfg.crawler.exclude_patterns :
           /\ i < j
           /\ obs.cfg.crawler.exclude_patterns[i].kind = "invalid"
           /\ obs.cfg.crawler.exclude_patterns[j].kind = "contains"
           /\ Contains(obs.url, obs.cfg.crawler.exclude_patterns[j].sub)
    /\ url_queue.items # {}

\* ------------------------------------------------------------------------
\* URLPriorityQueue on its own: any sequence of put and get
\* ------------------------------------------------------------------------

\* The priorities put is called with.
QueuePriorities == {5, 10}

QueueUrls == {StartUrl, IntroUrl}

\* The pending entries as a list of <<priority, url>> in insertion order: the
\* position of the entry get is to return, 0 when there is none.
FirstOfLeast(pending) ==
    IF pending = <<>> THEN 0
    ELSE CHOOSE i \in DOMAIN pending :
             \A j \in DOMAIN pending :
                 pending[i][1] < pending[j][1] \/ (pending[i][1] = pending[j][1] /\ i <= j)

RemoveAt(s, i) == SubSeq(s, 1, i - 1) \o SubSeq(s, i + 1, Len(s))

\* obs.known is the list of pending entries in insertion order, kept beside
\* the queue; obs.expected is what the last get had to return by that list,
\* obs.before the queue it was called on.
QueueInit ==
    /\ pc = "queue"
    /\ config = BaseConfig
    /\ FreshMemory
    /\ converted = <<>>
    /\ fetched = {}
    /\ last_attempt = NoAttempt
    /\ resume_visited = {}
    /\ save_args = NoArgs
    /\ obs = [NoObs EXCEPT !.known = <<>>, !.expected = NoUrl]
    /\ files = [p \in Paths |-> NoFile]
    /\ written = NoArgs
    /\ converted_ever = {}
    /\ failed_ever = {}
    /\ faults = 0

\* The variables the queue calls do not touch.
offQueueVars == <<pc, config, visited_urls, normalized_urls, stats, failed_url_counts,
                  loopVars, managerVars, fileVars, converted, fetched, last_attempt,
                  resume_visited, save_args, written, everVars, faults>>

\* A call of put(url, priority)
CallPut(url, priority) ==
    /\ pc = "queue"
    /\ url_queue.index < MaxQueued
    /\ url_queue' = queue_put(url_queue, url, priority)
    /\ obs' = [obs EXCEPT !.op = "put", !.known = Append(@, <<priority, url>>)]
    /\ UNCHANGED offQueueVars

\* A call of get()
CallGet ==
    /\ pc = "queue"
    /\ LET r == queue_get(url_queue)
           i == FirstOfLeast(obs.known)
       IN /\ url_queue' = r.queue
          /\ obs' = [obs EXCEPT !.op = "get", !.ok = r.found, !.url = r.url,
                                !.before = url_queue,
                                !.expected = IF i = 0 THEN NoUrl ELSE obs.known[i][2],
                                !.known = IF i = 0 THEN @ ELSE RemoveAt(@, i)]
    /\ UNCHANGED offQueueVars

QueueNext ==
    \/ \E url \in QueueUrls, priority \in QueuePriorities : CallPut(url, priority)
    \/ CallGet

QueueSpec == QueueInit /\ [][QueueNext]_vars

\* C11: get() returns the pending entry of the smallest priority and, among
\* those, the one put first; on an empty queue it returns None; size() is the
\* number of pending entries and empty() tells whether there is none.
PriorityQueueOrder ==
    /\ obs.op = "get" => /\ obs.url = obs.expected
                         /\ obs.ok <=> obs.expected # NoUrl
    /\ queue_size(url_queue) = Len(obs.known)
    /\ queue_empty(url_queue) <=> obs.known = <<>>

\* A get that returned the earlier of two pending entries of equal priority
\* while an entry put before both, of a larger priority, stays pending.
TieBrokenByInsertion ==
    /\ obs.op = "get" /\ obs.ok
    /\ \E e, f, g \in obs.before.items :
           /\ e[3] = obs.url /\ e \notin url_queue.items
           /\ f[1] = e[1] /\ f[2] > e[2]
           /\ g[1] > e[1] /\ g[2] < e[2]

\* ------------------------------------------------------------------------
\* The backoff delay on its own: any retry parameters, any attempt
\* ------------------------------------------------------------------------

\* Values of retry.initial_delay, retry.backoff_factor and retry.max_delay:
\* the defaults 1.0, 2 and 60.0 among them.
InitialDelays == {Rat(1, 1), Rat(3, 1)}
BackoffFactors == {Rat(1, 2), Rat(1, 1), Rat(2, 1)}
MaxDelays == {Rat(2, 1), Rat(60, 1)}

BackoffConfigs ==
    {[BaseConfig EXCEPT !.retry.initial_delay = i, !.retry.backoff_factor = f,
                        !.retry.max_delay = m] :
        i \in InitialDelays, f \in BackoffFactors, m \in MaxDelays}

NoCall == [k |-> -1, delay |-> Rat(0, 1)]

\* obs.before and obs.after are the last two calls: attempt and delay.
BackoffInit ==
    /\ pc = "backoff"
    /\ config \in BackoffConfigs
    /\ FreshMemory
    /\ converted = <<>>
    /\ fetched = {}
    /\ last_attempt = NoAttempt
    /\ resume_visited = {}
    /\ save_args = NoArgs
    /\ obs = [NoObs EXCEPT !.before = NoCall, !.after = NoCall]
    /\ files = [p \in Paths |-> NoFile]
    /\ written = NoArgs
    /\ converted_ever = {}
    /\ failed_ever = {}
    /\ faults = 0

\* A call of _calculate_backoff_delay(retry_count)
CallBackoff(k) ==
    /\ pc = "backoff"
    /\ obs' = [obs EXCEPT !.op = "backoff", !.before = obs.after,
                          !.after = [k |-> k, delay |-> calculate_backoff_delay(k, config)]]
    /\ UNCHANGED <<pc, config, crawlerVars, loopVars, managerVars, fileVars, converted,
                   fetched, last_attempt, resume_visited, save_args, written, everVars,
                   faults>>

BackoffNext == \E k \in 0..MaxRetries : CallBackoff(k)

BackoffSpec == BackoffInit /\ [][BackoffNext]_vars

\* min(initial_delay * backoff_factor^k, max_delay)
CappedDelay(k, cfg) ==
    LET d == RatMul(cfg.retry.initial_delay, RatPow(cfg.retry.backoff_factor, k))
    IN IF RatLeq(d, cfg.retry.max_delay) THEN d ELSE cfg.retry.max_delay

\* C12 as stated: the delay of attempt k is min(initial_delay *
\* backoff_factor^k, max_delay) and, whatever the retry parameters, an earlier
\* attempt's delay is at most a later attempt's, which is at most max_delay.
BackoffMonotone ==
    obs.op = "backoff" =>
        /\ RatEq(obs.after.delay, CappedDelay(obs.after.k, config))
        /\ (obs.before.k >= 0 /\ obs.before.k < obs.after.k) =>
               /\ RatLeq(obs.before.delay, obs.after.delay)
               /\ RatLeq(obs.after.delay, config.retry.max_delay)

\* C12 (amended): the delay of attempt k is min(initial_delay *
\* backoff_factor^k, max_delay), it never exceeds max_delay, and when
\* backoff_factor >= 1 and initial_delay >= 0 an earlier attempt's delay is at
\* most a later attempt's.
BackoffMonotoneForGrowingFactor ==
    obs.op = "backoff" =>
        /\ RatEq(obs.after.delay, CappedDelay(obs.after.k, config))
        /\ RatLeq(obs.after.delay, config.retry.max_delay)
        /\ (/\ obs.before.k >= 0 /\ obs.before.k < obs.after.k
            /\ RatLeq(Rat(1, 1), config.retry.backoff_factor)
            /\ RatLeq(Rat(0, 1), config.retry.initial_delay)) =>
               RatLeq(obs.before.delay, obs.after.delay)

\* Two calls with the default parameters: the later attempt waits strictly
\* longer, within the cap.
LaterAttemptWaitsLonger ==
    /\ obs.op = "backoff"
    /\ config.retry.backoff_factor = Rat(2, 1)
    /\ obs.before.k >= 0 /\ obs.before.k < obs.after.k
    /\ ~RatLeq(obs.after.delay, obs.before.delay)

\* ------------------------------------------------------------------------
\* _normalize_url on its own: any URL
\* ------------------------------------------------------------------------

\* What stands before the path: a scheme in either case and the host, the
\* host alone, or nothing.
UrlHeads ==
    {<<"https", ":", "/", "/", "x", ".", "test">>, <<"HTTPS", ":", "/", "/", "X", ".", "test">>,
     <<"/", "/", "x", ".", "test">>, <<>>}

PathTokens == {"/", ";", "?", "#", "p"}

\* The rest of the URL: up to MaxPathLen tokens, no two words in a row.
UrlTails ==
    {t \in UNION {[1..n -> PathTokens] : n \in 0..MaxPathLen} :
        \A i \in 1..(Len(t) - 1) : ~(IsWord(t[i]) /\ IsWord(t[i + 1]))}

NormalizeUrls == {h \o t : h \in UrlHeads, t \in UrlTails}

\* The URL to normalize is in current_url.
NormalizeInit ==
    /\ pc = "normalize"
    /\ config = BaseConfig
    /\ visited_urls = {}
    /\ normalized_urls = EmptyDict
    /\ url_queue = EmptyQueue
    /\ stats = NewStats
    /\ failed_url_counts = EmptyDict
    /\ current_url \in NormalizeUrls
    /\ retry_count = 0
    /\ processed_count = 0
    /\ success_count = 0
    /\ failed_count = 0
    /\ crawled_urls = <<>>
    /\ resumed = FALSE
    /\ rm_state = NewRecoveryState
    /\ save_counter = 0
    /\ forced = FALSE
    /\ original_counter = 0
    /\ FreshHistory
    /\ files = [p \in Paths |-> NoFile]
    /\ written = NoArgs
    /\ converted_ever = {}
    /\ failed_ever = {}
    /\ faults = 0

\* normalize_url(current_url), and normalize_url of what it returned:
\* obs.before is the first result, obs.after the second.
CallNormalize ==
    /\ pc = "normalize"
    /\ obs' = [NoObs EXCEPT !.op = "normalize", !.url = current_url,
                            !.before = normalize_url(current_url),
                            !.after = normalize_url(normalize_url(current_url))]
    /\ pc' = "normalized"
    /\ UNCHANGED <<config, crawlerVars, loopVars, managerVars, fileVars, converted,
                   fetched, last_attempt, resume_visited, save_args, written, everVars,
                   faults>>

NormalizeNext == CallNormalize

NormalizeSpec == NormalizeInit /\ [][NormalizeNext]_vars

\* C13: normalizing a normalized URL changes nothing:
\* _normalize_url(_normalize_url(u)) = _normalize_url(u) for every URL u.
NormalizationIdempotent ==
    obs.op = "normalize" => obs.after = obs.before

\* ------------------------------------------------------------------------
\* Properties of the crawl: interruption, completion, the save schedule
\* ------------------------------------------------------------------------

\* The step in which the crawl is interrupted: the forced save begins, or the
\* process exits at once.
InterruptStep == pc \in Running /\ ~forced /\ (forced' \/ pc' = "exited")

\* The step in which the forced save returns to run(), which raises again.
ForcedReturnStep == forced /\ ~forced' /\ pc' # "crashed"

\* The file at the canonical path after the step holds the arguments of the
\* save being written.
SaveInPlace ==
    LET f == files'[recovery_path(config)]
    IN /\ f.kind = "json"
       /\ ~from_dict(NewRecoveryState, f.data).raised
       /\ Payload(from_dict(NewRecoveryState, f.data).state) = Payload(save_args.state)

\* C14 as stated: every interruption starts a checkpoint write of the state
\* at the interruption, whatever the save counter is, the checkpoint is in
\* place when the forced save returns, and the process then exits with a
\* non-zero status.
CheckpointOnEveryInterrupt ==
    [][/\ InterruptStep =>
              /\ forced' /\ pc' = "save_write"
              /\ save_args'.saved /\ save_args'.state.visited_urls = visited_urls
       /\ ForcedReturnStep => (pc' = "exited" /\ SaveInPlace)]_vars

\* C14 (amended): with recovery enabled every interruption starts a
\* checkpoint write of the state at the interruption, whatever the save
\* counter is; the forced save ends with the checkpoint in place unless the
\* write fails; with recovery disabled nothing is written; in each case the
\* process exits with a non-zero status and the loop is not resumed.
ForcedCheckpointOnInterrupt ==
    /\ [](forced => pc \in {"save_write", "save_rename"})
    /\ [][/\ (InterruptStep /\ config.recovery.enable_recovery) =>
                 /\ forced' /\ pc' = "save_write"
                 /\ save_args'.saved /\ save_args'.state.visited_urls = visited_urls
          /\ (InterruptStep /\ ~config.recovery.enable_recovery) =>
                 (pc' = "exited" /\ files' = files)
          /\ (forced /\ pc' # "crashed") =>
                 (pc' \in {"save_rename", "exited"} /\ (forced' <=> pc' = "save_rename"))
          /\ (ForcedReturnStep /\ pc = "save_rename") => (pc' = "exited" /\ SaveInPlace)
          /\ (ForcedReturnStep /\ pc = "save_write") =>
                 (pc' = "exited" /\ files'[recovery_path(config)] = recovery_file)]_vars

\* The process has exited after an interruption that came when the next
\* periodic save would not have written, and the checkpoint of the forced
\* save is in place.
InterruptedOffInterval ==
    /\ pc = "exited"
    /\ ~IntervalHit(save_counter + 1, config)
    /\ save_counter = original_counter
    /\ written.saved /\ written = save_args
    /\ CompleteCheckpoint(recovery_file)
    /\ written.state.visited_urls # {}

ScheduleConfigs ==
    {[BaseConfig EXCEPT !.recovery.save_interval = i] :
        i \in {1, SaveInterval, SaveInterval + 1}}

ScheduleInit ==
    /\ pc = "loop"
    /\ config \in ScheduleConfigs
    /\ FreshMemory
    /\ FreshHistory
    /\ files = [p \in Paths |-> NoFile]
    /\ written = NoArgs
    /\ converted_ever = {}
    /\ failed_ever = {}
    /\ faults = 0

\* An iteration of the loop up to its save_state call; processed_count is
\* the number of iterations, each of which calls save_state once.
LoopIteration ==
    /\ pc = "loop"
    /\ processed_count < MaxSaves
    /\ processed_count' = processed_count + 1
    /\ pc' = "save"
    /\ UNCHANGED <<config, crawlerVars, current_url, retry_count, success_count,
                   failed_count, crawled_urls, resumed, managerVars, fileVars,
                   historyVars, everVars, faults>>

\* A call of force_save_current_state between two iterations.
CallForceSave == pc = "loop" /\ \E crawled \in Orders(visited_urls) : Interrupt(crawled)

\* force_save_current_state has returned and its caller goes on.
ForceReturn ==
    /\ pc = "exited"
    /\ pc' = "loop"
    /\ UNCHANGED <<config, crawlerVars, loopVars, managerVars, fileVars, historyVars,
                   everVars, faults>>

ScheduleNext ==
    \/ LoopIteration
    \/ SaveBegin
    \/ \E ok \in BOOLEAN : SaveWrite(ok)
    \/ SaveRename
    \/ CallForceSave
    \/ ForceReturn

ScheduleSpec == ScheduleInit /\ [][ScheduleNext]_vars

\* C16: with recovery enabled the k-th save_state call of a process starts a
\* checkpoint write exactly when k is a multiple of save_interval, and a
\* write that is not cut short puts the saved state in place; a forced save
\* starts a write whatever the counter is and leaves the counter as it was,
\* so between calls the counter is the number of periodic calls made.
SaveSchedule ==
    /\ [](pc = "loop" => save_counter = processed_count)
    /\ [][/\ (pc = "save" /\ pc' # "save") =>
                 /\ save_counter' = processed_count
                 /\ pc' = "save_write" <=> processed_count % config.recovery.save_interval = 0
                 /\ pc' = "save_write" => files'[temp_path(config)] # NoFile
                 /\ pc' # "save_write" => (pc' = "loop" /\ files' = files)
          /\ (pc = "loop" /\ pc' \notin {"loop", "save"}) =>
                 /\ forced' /\ pc' = "save_write"
                 /\ files'[temp_path(config)] # NoFile
          /\ (pc = "save_rename" /\ pc' # "save_rename") => SaveInPlace
          /\ (forced /\ ~forced') => save_counter' = processed_count]_vars

\* A periodic write on schedule after a forced save that came when the
\* counter was off the interval.
PeriodicWriteAfterForcedSave ==
    /\ pc = "save_write" /\ ~forced
    /\ faults > 0
    /\ original_counter % config.recovery.save_interval # 0
    /\ save_counter = original_counter + 1
    /\ config.recovery.save_interval > 1
    /\ written.saved

\* ------------------------------------------------------------------------
\* _fetch_page on its own: any retry parameters, any outcome
\* ------------------------------------------------------------------------

FetchConfigs ==
    {[BaseConfig EXCEPT !.retry.max_retries = r, !.retry.skip_after_failures = k,
                        !.retry.retry_status_codes = c] :
        r \in {0, 1, MaxRetries}, k \in {SkipAfterFailures, SkipAfterFailures + MaxFaults},
        c \in {RetryStatusCodes, {408, 503}, {429}}}

FetchInit ==
    /\ pc = "loop"
    /\ config \in FetchConfigs
    /\ FreshMemory
    /\ FreshHistory
    /\ files = [p \in Paths |-> NoFile]
    /\ written = NoArgs
    /\ converted_ever = {}
    /\ failed_ever = {}
    /\ faults = 0

\* A call of fetch_page(url); processed_count counts the calls.
CallFetchPage(url) ==
    /\ pc = "loop"
    /\ processed_count < MaxFetches
    /\ processed_count' = processed_count + 1
    /\ current_url' = url
    /\ retry_count' = 0
    /\ pc' = "fetch"
    /\ UNCHANGED <<config, crawlerVars, success_count, failed_count, crawled_urls, resumed,
                   managerVars, fileVars, historyVars, everVars, faults>>

\* fetch_page returns the text of the page.
FetchReturn ==
    /\ pc = "mark"
    /\ pc' = "loop"
    /\ UNCHANGED <<config, crawlerVars, loopVars, managerVars, fileVars, historyVars,
                   everVars, faults>>

FetchNext ==
    \/ \E url \in {StartUrl, IntroUrl} : CallFetchPage(url)
    \/ \E outcome \in Outcomes : FetchAttempt(outcome)
    \/ FetchReturn

FetchSpec == FetchInit /\ [][FetchNext]_vars

\* The step of an attempt that failed: the failure count of the URL grows.
FailedAttemptStep == pc = "fetch" /\ failed_url_counts' # failed_url_counts

\* The step in which _fetch_page calls itself for the same URL.
RetryStep ==
    pc' = "fetch" /\ current_url' = current_url /\ retry_count' = retry_count + 1

\* C17: after an attempt that failed with a timeout, a connection error or
\* another requests exception, _fetch_page calls itself again for the same
\* URL while retry_count < max_retries - 1, and gives up otherwise; a call of
\* _fetch_page sends a request exactly when the failure count of the URL is
\* below skip_after_failures.
TransportFailureRetried ==
    [][/\ (FailedAttemptStep
           /\ last_attempt'.outcome.kind \in {"timeout", "connection", "request"}) =>
              IF retry_count < config.retry.max_retries - 1
              THEN RetryStep
              ELSE pc' = "loop" /\ failed_count' = failed_count + 1
       /\ pc = "fetch" =>
              ((pc' = "mark" \/ failed_url_counts' # failed_url_counts)
                   <=> DictGet(failed_url_counts, current_url, 0)
                           < config.retry.skip_after_failures)]_vars

\* A second attempt was made for a URL after a failure, it timed out, and
\* with the budget of two attempts used up _fetch_page gave up.
RetryBudgetUsedUp ==
    /\ pc = "loop"
    /\ config.retry.max_retries = MaxRetries
    /\ last_attempt.retry_count = MaxRetries - 1
    /\ last_attempt.outcome.kind = "timeout"
    /\ DictGet(failed_url_counts, last_attempt.url, 0) = MaxRetries

\* C18: after an attempt that failed on an HTTP error status, _fetch_page
\* calls itself again exactly when the status is in retry_status_codes and
\* retry_count < max_retries - 1.
HttpStatusRetriedIffListed ==
    [][(FailedAttemptStep /\ last_attempt'.outcome.kind = "status") =>
           (RetryStep <=> /\ last_attempt'.outcome.status \in config.retry.retry_status_codes
                          /\ retry_count < config.retry.max_retries - 1)]_vars

\* ------------------------------------------------------------------------
\* The crawl without interruption: one process run to its end
\* ------------------------------------------------------------------------

\* The checkpoint of an earlier process that got as far as the start page.
PriorCheckpoint(cfg) ==
    SaveArgs(StartUrl, {StartUrl}, EmptyDict, 1, 1, 0, <<StartUrl>>)

\* A first start, or a start that finds the checkpoint of an earlier process.
UninterruptedInit ==
    /\ pc = "boot"
    /\ config \in {BaseConfig, NoRecoveryConfig}
    /\ FreshMemory
    /\ FreshHistory
    /\ \/ /\ files = [p \in Paths |-> NoFile]
          /\ written = NoArgs
       \/ /\ files = [p \in Paths |->
                        IF p = recovery_path(config)
                        THEN JsonFile(to_dict(
                                 [PriorCheckpoint(config).state EXCEPT
                                     !.config_checksum = calculate_config_checksum(config)]))
                        ELSE NoFile]
          /\ written = PriorCheckpoint(config)
    /\ converted_ever = {}
    /\ failed_ever = {}
    /\ faults = 0

\* The steps of a process nobody interrupts or kills.
UninterruptedNext ==
    \/ \E auto_resume, answer \in BOOLEAN : Boot(config, auto_resume, answer)
    \/ Dequeue
    \/ \E outcome \in Outcomes : FetchAttempt(outcome)
    \/ Mark
    \/ \E ok \in BOOLEAN : Convert(ok)
    \/ Extract
    \/ SaveBegin
    \/ \E ok \in BOOLEAN : SaveWrite(ok)
    \/ SaveRename
    \/ Drain

\* The loop is sequential and every call in it returns (the requests have a
\* timeout): a step that can be taken is taken.
UninterruptedSpec ==
    UninterruptedInit /\ [][UninterruptedNext]_vars /\ WF_vars(UninterruptedNext)

\* C19: a crawl that is not interrupted gets to the end of its loop with the
\* queue empty, whatever the fetches and conversions give, and stays there.
CrawlTerminates == <>[](pc = "done" /\ queue_empty(url_queue))

\* A completed crawl of two pages in which a request failed and a queued
\* URL was dropped as visited.
CompletedAfterFailures ==
    /\ pc = "done" /\ queue_empty(url_queue)
    /\ Cardinality(visited_urls) >= 2
    /\ stats.total_failed > 0
    /\ stats.total_skipped > 0

\* ------------------------------------------------------------------------
\* Properties of the crawl: the handoff to the converter
\* ------------------------------------------------------------------------

\* A step after which the process is still in its loop: no interruption, no
\* kill.
LoopStep == pc' \in Running /\ ~forced'

\* The links of the page that _is_valid_url admits and that are not visited
\* are on the queue after the step.
LinksEnqueued ==
    \A i \in DOMAIN Site(current_url) :
        LET url == Site(current_url)[i].url
        IN (is_valid_url(url, config, normalized_urls).ok
            /\ ~is_url_visited(url, normalized_urls))
               => \E e \in url_queue'.items : e[3] = url

\* C20: in a run process_page is called at most once per URL, only for the
\* URL whose fetch has just succeeded, and in every iteration whose fetch
\* succeeded; whatever it returns, one of success_count and failed_count
\* grows by one, the page stays visited, its links are extracted and put on
\* the queue, and the loop goes on.
ConverterHandoff ==
    /\ [](\A i, j \in 1..Len(converted) : i # j => converted[i] # converted[j])
    /\ [][/\ (converted' # converted /\ converted' # <<>>) =>
                 /\ pc = "convert"
                 /\ converted' = Append(converted, current_url)
                 /\ last_attempt.url = current_url /\ last_attempt.outcome.kind = "ok"
          /\ (pc = "fetch" /\ LoopStep) =>
                 (pc' = "mark" <=> /\ last_attempt'.outcome.kind = "ok"
                                   /\ ~should_skip_url(current_url, failed_url_counts, config))
          /\ (pc = "mark" /\ LoopStep) =>
                 (pc' = "convert" /\ current_url \in visited_urls')
          /\ (pc = "convert" /\ LoopStep) =>
                 /\ converted' = Append(converted, current_url)
                 /\ pc' = "extract"
                 /\ visited_urls' = visited_urls /\ normalized_urls' = normalized_urls
                 /\ \/ success_count' = success_count + 1 /\ failed_count' = failed_count
                    \/ success_count' = success_count /\ failed_count' = failed_count + 1
          /\ (pc = "extract" /\ LoopStep) =>
                 /\ pc' = "save"
                 /\ LinksEnqueued
                 /\ visited_urls' = visited_urls
          /\ (pc \in {"save", "save_write", "save_rename"} /\ ~forced /\ LoopStep) =>
                 pc' \in {"loop", "save_write", "save_rename"}]_vars

\* A run with no failed request that came to its end with more pages handed
\* to the converter than conversions succeeded, two of them failed: a page
\* was fetched and converted after a conversion had failed.
LoopWentOnAfterConverterFailure ==
    /\ pc = "done" /\ ~resumed
    /\ stats.total_failed = 0
    /\ failed_count = 2
    /\ Len(converted) = success_count + failed_count
    /\ Len(converted) >= 3
    /\ \A i \in 1..Len(converted) : converted[i] \in visited_urls

\* ------------------------------------------------------------------------
\* The visited set within a run
\* ------------------------------------------------------------------------

\* A step of a running process that leaves the process alive: a step of the
\* loop, the end of the loop, or an interruption (a kill ends the process and
\* its memory with it).
RunStep == pc \in Running /\ pc' # "crashed"

\* C21: within a run the visited set only grows: no step of the crawl loop
\* removes a URL from visited_urls or a key from normalized_urls, and the raw
\* URL stored for a normalized URL is never replaced (the first-seen raw form
\* is kept).
VisitedSetGrows ==
    [][RunStep =>
          /\ visited_urls \subseteq visited_urls'
          /\ DOMAIN normalized_urls \subseteq DOMAIN normalized_urls'
          /\ \A n \in DOMAIN normalized_urls : normalized_urls'[n] = normalized_urls[n]]_vars

\* Two pages are visited, and a second spelling of one of them (intro?v
\* for intro) came off the queue and was dropped: the map still holds the
\* spelling seen first.
FirstSeenFormKept ==
    /\ pc = "loop"
    /\ Cardinality(visited_urls) >= 2
    /\ current_url = IntroQuery
    /\ stats.total_skipped >= 1
    /\ normalize_url(IntroQuery) \in DOMAIN normalized_urls
    /\ normalized_urls[normalize_url(IntroQuery)] = IntroUrl

\* ------------------------------------------------------------------------
\* cleanup_recovery_file
\* ------------------------------------------------------------------------

\* A step that is a call of cleanup_recovery_file().
CleanupStep ==
    /\ pc = "manager" /\ pc' = "manager"
    /\ config' = config
    /\ obs'.op = "cleanup" /\ obs' # obs

BootStep == pc \in {"boot", "exited", "crashed"} /\ pc' = "loop"

KeywordClasses == {"high", "low"}

\* The links _calculate_priority is called for are absolute URLs: what
\* urljoin makes of an href on a fetched page.
PriorityUrls == {u \in NormalizeUrls : u # <<>> /\ Lower(Take(u, 1)) = <<"https">>}

\* The URL of the link is in current_url, the classes of its text in
\* obs.known.
PriorityInit ==
    /\ pc = "priority"
    /\ config = BaseConfig
    /\ visited_urls = {}
    /\ normalized_urls = EmptyDict
    /\ url_queue = EmptyQueue
    /\ stats = NewStats
    /\ failed_url_counts = EmptyDict
    /\ current_url \in PriorityUrls
    /\ retry_count = 0
    /\ processed_count = 0
    /\ success_count = 0
    /\ failed_count = 0
    /\ crawled_urls = <<>>
    /\ resumed = FALSE
    /\ rm_state = NewRecoveryState
    /\ save_counter = 0
    /\ forced = FALSE
    /\ original_counter = 0
    /\ converted = <<>>
    /\ fetched = {}
    /\ last_attempt = NoAttempt
    /\ resume_visited = {}
    /\ save_args = NoArgs
    /\ \E text \in SUBSET KeywordClasses : obs = [NoObs EXCEPT !.known = text]
    /\ files = [p \in Paths |-> NoFile]
    /\ written = NoArgs
    /\ converted_ever = {}
    /\ failed_ever = {}
    /\ faults = 0

\* A call of _calculate_priority(current_url, link): obs.after is the result.
CallPriority ==
    /\ pc = "priority"
    /\ obs' = [obs EXCEPT !.op = "priority", !.url = current_url,
                          !.after = calculate_priority(current_url, obs.known)]
    /\ pc' = "prioritized"
    /\ UNCHANGED <<config, crawlerVars, loopVars, managerVars, fileVars, converted,
                   fetched, last_attempt, resume_visited, save_args, written, everVars,
                   faults>>

PriorityNext == CallPriority

PrioritySpec == PriorityInit /\ [][PriorityNext]_vars

\* max(0, base + depth - 5 [introductory keyword] + 5 [reference keyword])
PriorityFormula(url, text) ==
    LET p == BasePriority + (Count(url, "/") - 3)
             + (IF "high" \in text THEN -5 ELSE 0) + (IF "low" \in text THEN 5 ELSE 0)
    IN IF p > 0 THEN p ELSE 0

\* C24: the priority of a link is max(0, base + depth - 5 [its text has an
\* introductory keyword] + 5 [its text has a reference/appendix keyword]),
\* each adjustment applied whenever its class is present, and it is never
\* negative.
PriorityIsFormula ==
    obs.op = "priority" =>
        /\ obs.after = PriorityFormula(obs.url, obs.known)
        /\ obs.after >= 0

\* ------------------------------------------------------------------------
\* Admission and the host of the link
\* ------------------------------------------------------------------------

\* C25: with an allowed_domain configured, _is_valid_url(url) is true if and
\* only if the normalized URL is not visited, the host of the URL equals the
\* host of allowed_domain, whatever the scheme of either, and no exclusion
\* pattern matches.
AdmittedIffHostMatches ==
    (obs.op = "is_valid_url" /\ obs.cfg.target_site.allowed_domain # <<>>) =>
        (obs.ok <=> /\ obs.url # <<>>
                    /\ normalize_url(obs.url) \notin obs.known
                    /\ HostOf(obs.url) = HostOf(obs.cfg.target_site.allowed_domain)
                    /\ ~ValidPatternMatches(obs.url, obs.cfg))

\* ------------------------------------------------------------------------
\* The statistics of the crawler
\* ------------------------------------------------------------------------

\* C26: total_failed counts terminal failures only: a failed attempt adds
\* one to it when _fetch_page gives up after it (budget used up, or an error
\* that is not retried), and nothing when _fetch_page calls itself again;
\* no other step of a fetch changes it.
TotalFailedCountsTerminal ==
    [][pc = "fetch" =>
          stats'.total_failed =
              stats.total_failed + (IF FailedAttemptStep /\ ~RetryStep THEN 1 ELSE 0)]_vars

\* The step that takes a URL off the queue and drops it as visited.
VisitedSkipStep == pc = "loop" /\ pc' = "loop" /\ url_queue' # url_queue

\* The step in which fetch_page, called for the URL just taken off the queue,
\* returns without a request because the URL has reached skip_after_failures.
AutoSkipStep ==
    /\ pc = "fetch" /\ retry_count = 0
    /\ should_skip_url(current_url, failed_url_counts, config)
    /\ pc' = "loop"

\* C27: total_skipped counts both kinds of skip: a dequeued URL dropped as
\* visited, and a dequeued URL not fetched because it has reached the
\* auto-skip threshold, each add exactly one to it.
TotalSkippedCountsBothSkips ==
    [][(VisitedSkipStep \/ AutoSkipStep) =>
           stats'.total_skipped = stats.total_skipped + 1]_vars

\* C28: within a run no step of the crawl loop lowers a statistic of the
\* crawler (total_crawled, total_failed, total_skipped) or a counter of the
\* loop (processed, success, failed).
StatisticsNeverDecrease ==
    [][RunStep =>
          /\ stats'.total_crawled >= stats.total_crawled
          /\ stats'.total_failed >= stats.total_failed
          /\ stats'.total_skipped >= stats.total_skipped
          /\ processed_count' >= processed_count
          /\ success_count' >= success_count
          /\ failed_count' >= failed_count]_vars

\* A run in which every statistic and every counter has grown.
AllStatisticsGrew ==
    /\ stats.total_crawled >= 2 /\ stats.total_failed >= 1 /\ stats.total_skipped >= 1
    /\ processed_count >= 3 /\ success_count >= 1 /\ failed_count >= 1
    /\ pc = "loop"

\* ------------------------------------------------------------------------
\* The failure counts
\* ------------------------------------------------------------------------

\* The step of a request that failed: an attempt of _fetch_page that ended
\* in one of its except clauses.
FailedRequestStep == pc = "fetch" /\ pc' \in {"fetch", "loop"} /\ faults' = faults + 1

\* C29: failure counts are never reset: no step lowers or removes the count
\* of a URL, a successful fetch of the URL included, and every failed
\* attempt adds exactly one to the count of its URL and leaves the other
\* counts alone.
FailureCountsNeverReset ==
    [][/\ \A u \in DOMAIN failed_url_counts :
              /\ u \in DOMAIN failed_url_counts'
              /\ failed_url_counts'[u] >= failed_url_counts[u]
       /\ FailedRequestStep =>
              /\ DictGet(failed_url_counts', current_url, 0)
                     = DictGet(failed_url_counts, current_url, 0) + 1
              /\ \A u \in DOMAIN failed_url_counts' \ {current_url} :
                     DictGet(failed_url_counts, u, 0) = failed_url_counts'[u]
       /\ ~FailedRequestStep => failed_url_counts' = failed_url_counts]_vars

\* A URL that had failed twice was fetched with success, and its count is
\* still two.
CountKeptAfterSuccess ==
    /\ pc = "loop"
    /\ last_attempt.outcome.kind = "ok"
    /\ last_attempt.failures_before = 2
    /\ DictGet(failed_url_counts, last_attempt.url, 0) = 2

\* ------------------------------------------------------------------------
\* A page that answers with an HTTP error and is linked from two pages
\* ------------------------------------------------------------------------

\* A crawl of the guide, whose pages link to each other, with a skip
\* threshold above one (the default is 5).
RefetchConfig ==
    [BaseConfig EXCEPT !.target_site.start_url = GuideUrl,
                       !.retry.skip_after_failures = SkipAfterFailures + 1]

\* What a request gets: the page, or a 404 response.
HttpOutcomes == {o \in Outcomes : o.kind = "ok" \/ (o.kind = "status" /\ o.status = 404)}

RefetchInit ==
    /\ pc = "boot"
    /\ config \in {RefetchConfig, [RefetchConfig EXCEPT !.recovery.enable_recovery = FALSE]}
    /\ FreshMemory
    /\ FreshHistory
    /\ files = [p \in Paths |-> NoFile]
    /\ written = NoArgs
    /\ converted_ever = {}
    /\ failed_ever = {}
    /\ faults = 0

\* The steps of one process nobody interrupts or kills, on a site whose
\* only failures are 404 responses.
RefetchNext ==
    \/ \E auto_resume, answer \in BOOLEAN : Boot(config, auto_resume, answer)
    \/ Dequeue
    \/ \E outcome \in HttpOutcomes : FetchAttempt(outcome)
    \/ Mark
    \/ \E ok \in BOOLEAN : Convert(ok)
    \/ Extract
    \/ SaveBegin
    \/ \E ok \in BOOLEAN : SaveWrite(ok)
    \/ SaveRename
    \/ Drain

RefetchSpec == RefetchInit /\ [][RefetchNext]_vars

\* The step in which a request is sent: an attempt of _fetch_page that got
\* the page or ended in an except clause.
RequestStep == pc = "fetch" /\ (pc' = "mark" \/ FailedRequestStep)

\* C30: a URL whose fetch failed with an HTTP status that is not in
\* retry_status_codes is not fetched again in the run: no later request is
\* sent for it (failed_ever is the set of URLs that got a 404, the only
\* failure of this site, and 404 is not in the list).
NonRetryableFailureIsTerminal ==
    [][RequestStep => current_url \notin failed_ever]_vars

\* ------------------------------------------------------------------------
\* An iteration whose fetch gives nothing
\* ------------------------------------------------------------------------

\* The step in which fetch_page returns None to the loop: the last attempt
\* failed and is not retried, or the URL was auto-skipped.
FetchGaveNoneStep == pc = "fetch" /\ pc' = "loop"

\* C31: when the fetch of a dequeued URL fails or is auto-skipped, the loop
\* goes on to the next URL: the queue gains no entry (the URL is not put
\* back), the visited set and map are unchanged, the converter is not
\* called, no save_state call is made and no file is touched; the loop's
\* failed_count grows by one and its other counters stay.
FailedFetchChangesOnlyCounters ==
    [][FetchGaveNoneStep =>
          /\ url_queue' = url_queue
          /\ visited_urls' = visited_urls
          /\ normalized_urls' = normalized_urls
          /\ crawled_urls' = crawled_urls
          /\ converted' = converted
          /\ save_counter' = save_counter /\ save_args' = save_args /\ rm_state' = rm_state
          /\ files' = files
          /\ failed_count' = failed_count + 1
          /\ processed_count' = processed_count /\ success_count' = success_count]_vars

\* After a page was crawled, the fetch of the next URL failed: the loop is
\* back at its head with other URLs waiting and the failed one not among
\* them.
LoopWentOnAfterFailedFetch ==
    /\ pc = "loop"
    /\ visited_urls # {}
    /\ last_attempt.url = current_url
    /\ last_attempt.outcome.kind \notin {"none", "ok"}
    /\ current_url \notin visited_urls
    /\ url_queue.items # {}
    /\ \A e \in url_queue.items : e[3] # current_url

\* ------------------------------------------------------------------------
\* A checkpoint write that fails
\* ------------------------------------------------------------------------

\* The step in which json.dump raises inside save_state and save_state
\* logs the exception and returns.
WriteFailedStep ==
    /\ pc = "manager_write" /\ pc' = "manager"
    /\ rm_state' = rm_state
    /\ obs.op = "save_state"
    /\ obs.file.kind = "json"

\* C32: a checkpoint write that fails inside save_state is not fatal:
\* save_state returns, and the checkpoint that was in place when it was
\* called is in place after it.
FailedWriteKeepsCheckpoint ==
    [][WriteFailedStep => files'[recovery_path(config)] = obs.file]_vars

\* ------------------------------------------------------------------------
\* What a resumed run starts from
\* ------------------------------------------------------------------------

\* C33: a process that loads the checkpoint and resumes enters the loop with
\* the visited set, the failure-count map and the three counters of the
\* checkpoint, with is_url_visited true of every URL of that set, and with a
\* queue of one entry, the start URL at priority 0.
ResumeRestoresSchedulerState ==
    [][(BootStep /\ resumed') =>
          /\ written.saved
          /\ visited_urls' = written.state.visited_urls
          /\ \A u \in written.state.visited_urls : is_url_visited(u, normalized_urls')
          /\ failed_url_counts' = written.state.failed_url_counts
          /\ processed_count' = written.state.processed_count
          /\ success_count' = written.state.success_count
          /\ failed_count' = written.state.failed_count
          /\ url_queue'.items = {<<0, 0, config'.target_site.start_url>>}]_vars

\* A resumed process before its first iteration, its checkpoint holding
\* visited pages, a failure count and counters above zero.
ResumedBeforeFirstIteration ==
    /\ resumed /\ pc = "loop" /\ fetched = {} /\ current_url = NoUrl
    /\ Cardinality(visited_urls) >= 2
    /\ DOMAIN failed_url_counts # {}
    /\ processed_count >= 3 /\ success_count >= 2 /\ failed_count >= 1
    /\ Cardinality(url_queue.items) = 1

\* ------------------------------------------------------------------------
\* The crawled list of a checkpoint
\* ------------------------------------------------------------------------

\* The step that puts a checkpoint in place.
CheckpointWrittenStep == written' # written /\ written'.saved

\* C34: the crawled_urls of every checkpoint put in place, periodic or
\* forced, is the loop's list of crawled URLs, in the order in which they were
\* marked; it has no URL twice and its elements are the checkpoint's visited
\* set.
CheckpointKeepsCrawlOrder ==
    [][CheckpointWrittenStep =>
          LET ck == written'.state
          IN /\ ck.crawled_urls = crawled_urls
             /\ Cardinality(Range(ck.crawled_urls)) = Len(ck.crawled_urls)
             /\ Range(ck.crawled_urls) = ck.visited_urls]_vars

\* ------------------------------------------------------------------------
\* The configuration checksum on its own: configuration documents with the
\* order of their keys
\* ------------------------------------------------------------------------

\* A dict with the order of its keys is a list of <<key, value>> pairs; the
\* values of a section are strings.
Item(k, v) == <<k, v>>

\* The keys of the documents, in the order sort_keys puts them.
AlphabeticalKeys ==
    <<"allowed_domain", "base_dir", "content_selector", "crawler", "execution",
      "extractor", "navigation_selector", "output", "request_delay", "start_url",
      "target_site">>

KeyRank(k) == CHOOSE i \in DOMAIN AlphabeticalKeys : AlphabeticalKeys[i] = k

\* The items of a dict in the order of their keys.
SortKeys(d) ==
    CHOOSE s \in Orders(Range(d)) :
        \A i \in 1..(Len(s) - 1) : KeyRank(s[i][1]) < KeyRank(s[i + 1][1])

\* d.get(k, {})
SectionGet(d, k) ==
    IF \E i \in DOMAIN d : d[i][1] = k
    THEN d[CHOOSE i \in DOMAIN d : d[i][1] = k][2]
    ELSE <<>>

\* The dict as a function, without the order of its keys.
AsMap(d) == [k \in {d[i][1] : i \in DOMAIN d} |-> SectionGet(d, k)]

\* key_config of _calculate_config_checksum: the four sections, as the dict
\* literal lists them.
key_config(doc) ==
    <<Item("target_site", SectionGet(doc, "target_site")),
      Item("crawler", SectionGet(doc, "crawler")),
      Item("extractor", SectionGet(doc, "extractor")),
      Item("output", SectionGet(doc, "output"))>>

\* json.dumps without sort_keys: the items in the order of the dicts.
json_dumps_insertion(kc) == kc

\* json.dumps(key_config, sort_keys=True): the items of the dict and of each
\* section in the order of their keys.
json_dumps_sort_keys(kc) ==
    SortKeys([i \in DOMAIN kc |-> Item(kc[i][1], SortKeys(kc[i][2]))])

\* hashlib.md5(config_str.encode()).hexdigest(): the digest stands for the
\* text it is taken of.
document_checksum(doc) == <<json_dumps_sort_keys(key_config(doc))>>

\* The values a setting may have in the documents.
StartUrls == {"https://x.test/docs/", "https://x.test/guide/"}
Selectors == {"main", "article"}
NavSelectors == {"nav", "aside"}
BaseDirs == {"./output", "./out"}
Delays == {"1.0", "2.0"}

\* The target_site sections: either order of the two keys.
TargetSites ==
    UNION {{<<Item("start_url", u), Item("allowed_domain", "https://x.test")>>,
            <<Item("allowed_domain", "https://x.test"), Item("start_url", u)>>} :
           u \in StartUrls}

\* The documents: every combination of the settings, the sections in either
\* of two orders.
ConfigDocuments ==
    UNION {{<<Item("target_site", ts), Item("crawler", <<Item("navigation_selector", nav)>>),
              Item("extractor", <<Item("content_selector", sel)>>),
              Item("output", <<Item("base_dir", dir)>>),
              Item("execution", <<Item("request_delay", delay)>>)>>,
            <<Item("execution", <<Item("request_delay", delay)>>),
              Item("output", <<Item("base_dir", dir)>>),
              Item("extractor", <<Item("content_selector", sel)>>),
              Item("crawler", <<Item("navigation_selector", nav)>>),
              Item("target_site", ts)>>} :
           <<ts, nav, sel, dir, delay>> \in
               TargetSites \X NavSelectors \X Selectors \X BaseDirs \X Delays}

\* Two documents: obs.cfg and obs.file.
ChecksumInit ==
    /\ pc = "checksum"
    /\ config = BaseConfig
    /\ FreshMemory
    /\ converted = <<>>
    /\ fetched = {}
    /\ last_attempt = NoAttempt
    /\ resume_visited = {}
    /\ save_args = NoArgs
    /\ \E a, b \in ConfigDocuments : obs = [NoObs EXCEPT !.cfg = a, !.file = b]
    /\ files = [p \in Paths |-> NoFile]
    /\ written = NoArgs
    /\ converted_ever = {}
    /\ failed_ever = {}
    /\ faults = 0

\* _calculate_config_checksum() under each of the two documents: obs.before
\* and obs.after are the checksums.
CallChecksum ==
    /\ pc = "checksum"
    /\ obs' = [obs EXCEPT !.op = "checksum", !.before = document_checksum(obs.cfg),
                          !.after = document_checksum(obs.file)]
    /\ pc' = "summed"
    /\ UNCHANGED <<config, crawlerVars, loopVars, managerVars, fileVars, converted,
                   fetched, last_attempt, resume_visited, save_args, written, everVars,
                   faults>>

ChecksumNext == CallChecksum

ChecksumSpec == ChecksumInit /\ [][ChecksumNext]_vars

\* The sections the checksum is said to cover.
CrawlSections == {"target_site", "crawler", "extractor", "output"}

\* The two documents have the same keys and values in the section.
SectionsAgree(a, b, section) ==
    AsMap(SectionGet(a, section)) = AsMap(SectionGet(b, section))

\* C35: two configurations have the same checksum if and only if they agree
\* on the target_site, crawler, extractor and output sections, whatever the
\* order of their keys and whatever their other settings are.
ChecksumCoversCrawlSections ==
    obs.op = "checksum" =>
        (obs.before = obs.after
            <=> \A section \in CrawlSections : SectionsAgree(obs.cfg, obs.file, section))

\* Two documents with the keys in another order and another request delay
\* have the same checksum, and two that differ in the content selector only
\* have different ones.
SameChecksumOtherOrder ==
    /\ obs.op = "checksum" /\ obs.before = obs.after
    /\ obs.cfg[1] # obs.file[1]
    /\ SectionGet(obs.cfg, "target_site") # SectionGet(obs.file, "target_site")
    /\ SectionGet(obs.cfg, "execution") # SectionGet(obs.file, "execution")

\* ------------------------------------------------------------------------
\* The attempts of one fetch_page call
\* ------------------------------------------------------------------------

\* The most requests one call of fetch_page sends.
AttemptBudget(cfg) == IF cfg.retry.max_retries >= 1 THEN cfg.retry.max_retries ELSE 1

LoweredConfig == [RefetchConfig EXCEPT !.retry.skip_after_failures = SkipAfterFailures]

\* The arguments of the save_state call of an interrupted crawl of the guide
\* under RefetchConfig: the start page crawled, /guide/b failed c times.
LeftArgs(c) ==
    SaveArgs(GuideUrl, {GuideUrl}, DictPut(EmptyDict, GuideB, c), 2, 1, 1, <<GuideUrl>>)

\* The checkpoint such a run left, and the configuration of the next run:
\* the same, or the same with the threshold lowered.
ThresholdInit ==
    /\ pc = "boot"
    /\ config \in {RefetchConfig, LoweredConfig}
    /\ FreshMemory
    /\ FreshHistory
    /\ \E c \in 1..RefetchConfig.retry.skip_after_failures :
          /\ written = LeftArgs(c)
          /\ files = [p \in Paths |->
                         IF p = recovery_path(RefetchConfig)
                         THEN JsonFile(to_dict(
                                  [LeftArgs(c).state EXCEPT
                                      !.timestamp = "now",
                                      !.config_checksum =
                                          calculate_config_checksum(RefetchConfig)]))
                         ELSE NoFile]
    /\ converted_ever = {GuideUrl}
    /\ failed_ever = {}
    /\ faults = 0

ThresholdSpec == ThresholdInit /\ [][RefetchNext]_vars

\* The count the process started with for the URL: the checkpoint's in a
\* resumed run (obs.after is the state Boot loaded), none in a fresh one.
RestoredCount(url) ==
    IF resumed THEN DictGet(obs.after.failed_url_counts, url, 0) ELSE 0

VisitedBookkeepingConsistent ==
    pc = "loop" =>
        /\ {normalized_urls[n] : n \in DOMAIN normalized_urls} = visited_urls
        /\ \A u, v \in visited_urls : normalize_url(u) = normalize_url(v) => u = v
        /\ stats.total_crawled = Cardinality(visited_urls)

\* A resumed run between two iterations, after it took the start URL from
\* the queue, with the two pages of its checkpoint restored.
ResumedRunAtBoundary ==
    /\ pc = "loop" /\ resumed
    /\ current_url # NoUrl
    /\ Cardinality(resume_visited) >= 2
    /\ DOMAIN normalized_urls # {}

\* ------------------------------------------------------------------------
\* The pages of a checkpoint and the converter
\* ------------------------------------------------------------------------

\* C39: every URL of the visited set of a checkpoint put in place, periodic
\* or forced, has been handed to the converter, in this process or in an
\* earlier one.
CheckpointedPagesConverted ==
    [][CheckpointWrittenStep => written'.state.visited_urls \subseteq converted_ever]_vars

\* ------------------------------------------------------------------------
\* The counters of the loop
\* ------------------------------------------------------------------------

\* Between two iterations every URL counted as processed is counted as a
\* success or as a failure.
CountersBalanced == pc = "loop" => processed_count = success_count + failed_count

\* C40: between two iterations of the loop, in a fresh and in a resumed run,
\* processed_count = success_count + failed_count, and the counts of every
\* checkpoint put in place are the loop's processed, success and failed
\* counts at the save.
CounterAccounting ==
    /\ []CountersBalanced
    /\ [][CheckpointWrittenStep =>
             /\ written'.state.processed_count = processed_count
             /\ written'.state.success_count = success_count
             /\ written'.state.failed_count = failed_count]_vars

====
